---- MODULE Spec2Model ----
(***************************************************************************)
(* ArchWize front end (pages/index.js): the Home component's render        *)
(* attempt controller (generateDiagram, the [diagram] effect,              *)
(* renderDiagram, retryRender, useTemplate) and the textual repair         *)
(* pipeline of retryRender.                                                *)
(*                                                                         *)
(* A diagram source is a sequence of one-character strings.  The external  *)
(* renderer (mermaid) is opaque: each attempt nondeterministically renders *)
(* at once (mermaid.init returns), fails at once (mermaid.init throws and  *)
(* the fallback throws before suspending) or suspends at                   *)
(* `await mermaid.render(...)` and settles in a later step.                *)
(***************************************************************************)
EXTENDS Integers, Sequences, FiniteSets

(***************************************************************************)
(* Character classes of the JavaScript regular expressions.                *)
(***************************************************************************)
\* \s
Whitespace == {" ", "\n", "\t"}

\* [A-Z]
UpperCase ==
    {"A", "B", "C", "D", "E", "F", "G", "H", "I", "J", "K", "L", "M",
     "N", "O", "P", "Q", "R", "S", "T", "U", "V", "W", "X", "Y", "Z"}

LowerCase ==
    {"a", "b", "c", "d", "e", "f", "g", "h", "i", "j", "k", "l", "m",
     "n", "o", "p", "q", "r", "s", "t", "u", "v", "w", "x", "y", "z"}

Digit == {"0", "1", "2", "3", "4", "5", "6", "7", "8", "9"}

\* \w
WordChar == UpperCase \cup LowerCase \cup Digit \cup {"_"}

(***************************************************************************)
(* String primitives.  Searches split their range in halves so that the    *)
(* evaluation depth stays logarithmic in the length of the text.           *)
(***************************************************************************)
\* The least k in lo..hi whose character is in C (inside = TRUE) or is not
\* in C (inside = FALSE); hi + 1 when there is none.
RECURSIVE FirstIndex(_, _, _, _, _)
FirstIndex(s, lo, hi, C, inside) ==
    IF lo > hi THEN hi + 1
    ELSE IF lo = hi THEN (IF (s[lo] \in C) = inside THEN lo ELSE hi + 1)
    ELSE LET m == (lo + hi) \div 2
             l == FirstIndex(s, lo, m, C, inside)
         IN  IF l <= m THEN l ELSE FirstIndex(s, m + 1, hi, C, inside)

\* The greatest k in lo..hi whose character is in C (inside = TRUE) or is
\* not in C (inside = FALSE); lo - 1 when there is none.
RECURSIVE LastIndex(_, _, _, _, _)
LastIndex(s, lo, hi, C, inside) ==
    IF lo > hi THEN lo - 1
    ELSE IF lo = hi THEN (IF (s[lo] \in C) = inside THEN lo ELSE lo - 1)
    ELSE LET m == (lo + hi) \div 2
             r == LastIndex(s, m + 1, hi, C, inside)
         IN  IF r > m THEN r ELSE LastIndex(s, lo, m, C, inside)

\* The last index of the longest run of characters of class C that starts
\* at i (i - 1 when s[i] is not in C): a greedy C* at position i.
RunEnd(s, i, C) == FirstIndex(s, i, Len(s), C, FALSE) - 1

\* The literal lit occurs in s at position i.
MatchLit(s, i, lit) ==
    /\ i >= 1
    /\ i + Len(lit) - 1 <= Len(s)
    /\ \A k \in 1..Len(lit) : s[i + k - 1] = lit[k]

\* String.prototype.startsWith
startsWith(s, prefix) == MatchLit(s, 1, prefix)

\* String.prototype.includes
includes(s, lit) == \E i \in 1..(Len(s) - Len(lit) + 1) : MatchLit(s, i, lit)

\* String.prototype.trim
trim(s) ==
    LET a == FirstIndex(s, 1, Len(s), Whitespace, FALSE)
        b == LastIndex(s, 1, Len(s), Whitespace, FALSE)
    IN  IF a > Len(s) THEN <<>> ELSE SubSeq(s, a, b)

(***************************************************************************)
(* The regular expressions of retryRender.                                 *)
(***************************************************************************)
Arrow == <<"-", "-", ">">>
GraphKw == <<"g", "r", "a", "p", "h", " ">>
ConfirmPayPal == <<"C", "o", "n", "f", "i", "r", "m", "P", "a", "y", "P", "a", "l">>
Review == <<"R", "e", "v", "i", "e", "w">>

\* The two values of the orientation buttons.
TD == <<"T", "D">>
LR == <<"L", "R">>
Orientations == {TD, LR}

\* \w+\["[^"]*"\] at i: the last index of the node declaration, or 0.
NodeEnd(s, i) ==
    LET w == RunEnd(s, i, WordChar)
    IN  IF w < i \/ ~MatchLit(s, w + 1, <<"[", "\"">>) THEN 0
        ELSE LET q == FirstIndex(s, w + 3, Len(s), {"\""}, TRUE)
             IN  IF MatchLit(s, q, <<"\"", "]">>) THEN q + 1 ELSE 0

\* ^graph [A-Z]+ : the last index of the match, or 0.
GraphDeclEnd(s) ==
    IF ~startsWith(s, GraphKw) THEN 0
    ELSE LET u == RunEnd(s, 7, UpperCase)
         IN  IF u >= 7 THEN u ELSE 0

\* /(\w+\["[^"]*"\])\s+(\w+\["[^"]*"\])/g  ->  '$1 --> $2'
MissingArrowEnd(s, i) ==
    LET a == NodeEnd(s, i)
        w == RunEnd(s, a + 1, Whitespace)
    IN  IF a = 0 \/ w < a + 1 THEN 0 ELSE NodeEnd(s, w + 1)

MissingArrowFix(s, i, e) ==
    LET a == NodeEnd(s, i)
        w == RunEnd(s, a + 1, Whitespace)
    IN  SubSeq(s, i, a) \o <<" ">> \o Arrow \o <<" ">> \o SubSeq(s, w + 1, e)

\* /(\w+\["[^"]*"\])(\s*\n)/g  ->  '$1;$2'
NodeNewlineEnd(s, i) ==
    LET a == NodeEnd(s, i)
        w == RunEnd(s, a + 1, Whitespace)
        nl == LastIndex(s, a + 1, w, {"\n"}, TRUE)
    IN  IF a = 0 \/ nl < a + 1 THEN 0 ELSE nl

NodeSemicolonFix(s, i, e) ==
    LET a == NodeEnd(s, i)
    IN  SubSeq(s, i, a) \o <<";">> \o SubSeq(s, a + 1, e)

\* /-->\|{2}/g  ->  '-->|'
DoublePipeEnd(s, i) ==
    IF MatchLit(s, i, Arrow \o <<"|", "|">>) THEN i + 4 ELSE 0

DoublePipeFix(s, i, e) == Arrow \o <<"|">>

\* /(ConfirmPayPal)\s+(Review)/g  ->  '$1 --> $2'
ConfirmReviewEnd(s, i) ==
    IF ~MatchLit(s, i, ConfirmPayPal) THEN 0
    ELSE LET a == i + Len(ConfirmPayPal) - 1
             w == RunEnd(s, a + 1, Whitespace)
         IN  IF w >= a + 1 /\ MatchLit(s, w + 1, Review)
             THEN w + Len(Review) ELSE 0

ConfirmReviewFix(s, i, e) == ConfirmPayPal \o <<" ">> \o Arrow \o <<" ">> \o Review

\* /([^\s])-->/g  ->  '$1 -->'
NoSpaceBeforeArrowEnd(s, i) ==
    IF s[i] \notin Whitespace /\ MatchLit(s, i + 1, Arrow) THEN i + 3 ELSE 0

SpaceBeforeArrowFix(s, i, e) == <<s[i], " ">> \o Arrow

\* /-->([^\s|])/g  ->  '--> $1'
NoSpaceAfterArrowEnd(s, i) ==
    IF /\ MatchLit(s, i, Arrow)
       /\ i + 3 <= Len(s)
       /\ s[i + 3] \notin (Whitespace \cup {"|"})
    THEN i + 3 ELSE 0

SpaceAfterArrowFix(s, i, e) == Arrow \o <<" ", s[e]>>

\* /\|([^|]+)\|/g  ->  '|$1| '
ConditionEnd(s, i) ==
    IF s[i] # "|" THEN 0
    ELSE LET q == FirstIndex(s, i + 1, Len(s), {"|"}, TRUE)
         IN  IF q <= Len(s) /\ q >= i + 2 THEN q ELSE 0

ConditionFix(s, i, e) == SubSeq(s, i, e) \o <<" ">>

\* /(\w+\["[^"]*"\])(\s*$)/gm  ->  '$1;$2'   ($ is the end of the text or
\* the position before a line break)
NodeLineEndEnd(s, i) ==
    LET a == NodeEnd(s, i)
        w == RunEnd(s, a + 1, Whitespace)
        nl == LastIndex(s, a + 1, w, {"\n"}, TRUE)
    IN  IF a = 0 THEN 0
        ELSE IF w = Len(s) THEN w
        ELSE IF nl >= a + 1 THEN nl - 1
        ELSE 0

\* /(-->.*?)(\n|$)/g  ->  '$1;$2'   ($ is the end of the text)
ArrowLineEnd(s, i) ==
    IF ~MatchLit(s, i, Arrow) THEN 0
    ELSE LET j == FirstIndex(s, i + 3, Len(s), {"\n"}, TRUE)
         IN  IF j <= Len(s) THEN j ELSE Len(s)

ArrowSemicolonFix(s, i, e) ==
    IF s[e] = "\n" /\ e >= i + 3
    THEN SubSeq(s, i, e - 1) \o <<";", "\n">>
    ELSE SubSeq(s, i, e) \o <<";">>

\* The global replacements of the chain, in the order of the source.
Rules ==
    <<"missingArrow", "nodeNewline", "doublePipe", "confirmReview",
      "spaceBeforeArrow", "spaceAfterArrow", "condition", "nodeLineEnd",
      "arrowLineEnd">>

\* The last index of the match of a rule's expression that starts at i, or 0
\* when the expression does not match there.  No match is empty.
MatchEnd(rule, s, i) ==
    CASE rule = "missingArrow" -> MissingArrowEnd(s, i)
      [] rule = "nodeNewline" -> NodeNewlineEnd(s, i)
      [] rule = "doublePipe" -> DoublePipeEnd(s, i)
      [] rule = "confirmReview" -> ConfirmReviewEnd(s, i)
      [] rule = "spaceBeforeArrow" -> NoSpaceBeforeArrowEnd(s, i)
      [] rule = "spaceAfterArrow" -> NoSpaceAfterArrowEnd(s, i)
      [] rule = "condition" -> ConditionEnd(s, i)
      [] rule = "nodeLineEnd" -> NodeLineEndEnd(s, i)
      [] rule = "arrowLineEnd" -> ArrowLineEnd(s, i)

\* The text a rule puts in place of the match s[i..e].
Replacement(rule, s, i, e) ==
    CASE rule = "missingArrow" -> MissingArrowFix(s, i, e)
      [] rule = "nodeNewline" -> NodeSemicolonFix(s, i, e)
      [] rule = "doublePipe" -> DoublePipeFix(s, i, e)
      [] rule = "confirmReview" -> ConfirmReviewFix(s, i, e)
      [] rule = "spaceBeforeArrow" -> SpaceBeforeArrowFix(s, i, e)
      [] rule = "spaceAfterArrow" -> SpaceAfterArrowFix(s, i, e)
      [] rule = "condition" -> ConditionFix(s, i, e)
      [] rule = "nodeLineEnd" -> NodeSemicolonFix(s, i, e)
      [] rule = "arrowLineEnd" -> ArrowSemicolonFix(s, i, e)

\* One left-to-right pass over the positions i..j of s: the text produced
\* and the position at which the pass resumes.  After a match the pass
\* resumes behind it, so matches never overlap.
RECURSIVE scan(_, _, _, _)
scan(rule, s, i, j) ==
    IF i > j THEN << <<>>, i >>
    ELSE IF i = j THEN
        LET e == MatchEnd(rule, s, i)
        IN  IF e >= i THEN << Replacement(rule, s, i, e), e + 1 >>
            ELSE << <<s[i]>>, i + 1 >>
    ELSE LET m == (i + j) \div 2
             l == scan(rule, s, i, m)
             r == scan(rule, s, l[2], j)
         IN  << l[1] \o r[1], r[2] >>

\* String.prototype.replace with a global regular expression.
ReplaceAll(s, rule) == scan(rule, s, 1, Len(s))[1]

\* The chain applied from rule n on.
RECURSIVE applyRules(_, _)
applyRules(s, n) ==
    IF n > Len(Rules) THEN s ELSE applyRules(ReplaceAll(s, Rules[n]), n + 1)

(***************************************************************************)
(* The template literals of retryRender and useTemplate, character for     *)
(* character; each starts with `graph ${orientation}`.                     *)
(***************************************************************************)
\* retryRender: the buy order template literal
buyOrderTemplate ==
    [orientation \in Orientations |->
    GraphKw \o orientation \o
    <<
       ";", "\n", " ", " ", "S", "t", "a", "r", "t", "[", "\"", "R", "e",
       "c", "e", "i", "v", "e", " ", "B", "u", "y", " ", "O", "r", "d", "e",
       "r", "\"", "]", " ", "-", "-", ">", " ", "V", "a", "l", "i", "d", "a",
       "t", "e", "T", "o", "k", "e", "n", "[", "\"", "V", "a", "l", "i", "d",
       "a", "t", "e", " ", "A", "u", "t", "h", "e", "n", "t", "i", "c", "a",
       "t", "i", "o", "n", " ", "T", "o", "k", "e", "n", "\"", "]", ";",
       "\n", " ", " ", "V", "a", "l", "i", "d", "a", "t", "e", "T", "o", "k",
       "e", "n", " ", "-", "-", ">", " ", "C", "l", "e", "a", "n", "R", "e",
       "q", "u", "e", "s", "t", "[", "\"", "C", "l", "e", "a", "n", " ", "a",
       "n", "d", " ", "S", "t", "a", "n", "d", "a", "r", "d", "i", "z", "e",
       " ", "R", "e", "q", "u", "e", "s", "t", "\"", "]", ";", "\n", " ",
       " ", "C", "l", "e", "a", "n", "R", "e", "q", "u", "e", "s", "t", " ",
       "-", "-", ">", " ", "S", "e", "n", "d", "R", "e", "q", "u", "e", "s",
       "t", "[", "\"", "S", "e", "n", "d", " ", "R", "e", "q", "u", "e", "s",
       "t", " ", "t", "o", " ", "T", "r", "a", "d", "e", " ", "S", "e", "r",
       "v", "i", "c", "e", "\"", "]", ";", "\n", " ", " ", "S", "e", "n",
       "d", "R", "e", "q", "u", "e", "s", "t", " ", "-", "-", ">", " ", "T",
       "r", "a", "d", "e", "S", "e", "r", "v", "i", "c", "e", "[", "\"", "T",
       "r", "a", "d", "e", " ", "S", "e", "r", "v", "i", "c", "e", "\"", "]",
       ";", "\n", " ", " ", "T", "r", "a", "d", "e", "S", "e", "r", "v", "i",
       "c", "e", " ", "-", "-", ">", " ", "A", "u", "t", "h", "o", "r", "i",
       "z", "e", "P", "a", "r", "s", "e", "[", "\"", "A", "u", "t", "h", "o",
       "r", "i", "z", "a", "t", "i", "o", "n", " ", "&", " ", "P", "a", "r",
       "s", "i", "n", "g", "\"", "]", ";", "\n", " ", " ", "T", "r", "a",
       "d", "e", "S", "e", "r", "v", "i", "c", "e", " ", "-", "-", ">", " ",
       "N", "o", "r", "m", "a", "l", "i", "z", "e", "D", "a", "t", "a", "[",
       "\"", "N", "o", "r", "m", "a", "l", "i", "z", "e", " ", "T", "r", "a",
       "d", "e", " ", "D", "a", "t", "a", "\"", "]", ";", "\n", " ", " ",
       "T", "r", "a", "d", "e", "S", "e", "r", "v", "i", "c", "e", " ", "-",
       "-", ">", " ", "V", "a", "l", "i", "d", "a", "t", "e", "T", "r", "a",
       "d", "e", "[", "\"", "V", "a", "l", "i", "d", "a", "t", "e", " ", "T",
       "r", "a", "d", "e", "\"", "]", ";", "\n", " ", " ", "T", "r", "a",
       "d", "e", "S", "e", "r", "v", "i", "c", "e", " ", "-", "-", ">", " ",
       "E", "n", "r", "i", "c", "h", "D", "a", "t", "a", "[", "\"", "E", "n",
       "r", "i", "c", "h", " ", "T", "r", "a", "d", "e", " ", "D", "a", "t",
       "a", "\"", "]", ";", "\n", " ", " ", "T", "r", "a", "d", "e", "S",
       "e", "r", "v", "i", "c", "e", " ", "-", "-", ">", " ", "B", "u", "s",
       "i", "n", "e", "s", "s", "E", "v", "e", "n", "t", "[", "\"", "B", "u",
       "s", "i", "n", "e", "s", "s", " ", "E", "v", "e", "n", "t", " ", "G",
       "e", "n", "e", "r", "a", "t", "i", "o", "n", "\"", "]", ";", "\n",
       " ", " ", "B", "u", "s", "i", "n", "e", "s", "s", "E", "v", "e", "n",
       "t", " ", "-", "-", ">", " ", "K", "a", "f", "k", "a", "T", "o", "p",
       "i", "c", "s", "[", "\"", "E", "m", "i", "t", " ", "K", "a", "f", "k",
       "a", " ", "T", "o", "p", "i", "c", "s", "\"", "]", ";", "\n", " ",
       " ", "K", "a", "f", "k", "a", "T", "o", "p", "i", "c", "s", " ", "-",
       "-", ">", " ", "N", "e", "w", "T", "r", "a", "d", "e", "[", "\"", "N",
       "e", "w", " ", "T", "r", "a", "d", "e", " ", "T", "o", "p", "i", "c",
       "\"", "]", ";", "\n", " ", " ", "K", "a", "f", "k", "a", "T", "o",
       "p", "i", "c", "s", " ", "-", "-", ">", " ", "A", "m", "e", "n", "d",
       "e", "d", "T", "r", "a", "d", "e", "[", "\"", "A", "m", "e", "n", "d",
       "e", "d", " ", "T", "r", "a", "d", "e", " ", "T", "o", "p", "i", "c",
       "\"", "]", ";", "\n", " ", " ", "K", "a", "f", "k", "a", "T", "o",
       "p", "i", "c", "s", " ", "-", "-", ">", " ", "C", "a", "n", "c", "e",
       "l", "e", "d", "T", "r", "a", "d", "e", "[", "\"", "C", "a", "n", "c",
       "e", "l", "e", "d", " ", "T", "r", "a", "d", "e", " ", "T", "o", "p",
       "i", "c", "\"", "]", ";", "\n", " ", " ", "N", "e", "w", "T", "r",
       "a", "d", "e", " ", "-", "-", ">", " ", "E", "v", "e", "n", "t", "C",
       "o", "n", "s", "u", "m", "e", "r", "s", "[", "\"", "E", "v", "e", "n",
       "t", " ", "C", "o", "n", "s", "u", "m", "e", "r", "s", "\"", "]", ";",
       "\n", " ", " ", "A", "m", "e", "n", "d", "e", "d", "T", "r", "a", "d",
       "e", " ", "-", "-", ">", " ", "E", "v", "e", "n", "t", "C", "o", "n",
       "s", "u", "m", "e", "r", "s", ";", "\n", " ", " ", "C", "a", "n", "c",
       "e", "l", "e", "d", "T", "r", "a", "d", "e", " ", "-", "-", ">", " ",
       "E", "v", "e", "n", "t", "C", "o", "n", "s", "u", "m", "e", "r", "s",
       ";", "\n", " ", " ", "E", "v", "e", "n", "t", "C", "o", "n", "s", "u",
       "m", "e", "r", "s", " ", "-", "-", ">", " ", "A", "P", "I", "G", "a",
       "t", "e", "w", "a", "y", "[", "\"", "A", "P", "I", " ", "G", "a", "t",
       "e", "w", "a", "y", "\"", "]", ";", "\n", " ", " ", "A", "P", "I",
       "G", "a", "t", "e", "w", "a", "y", " ", "-", "-", ">", " ", "N", "S",
       "C", "C", "[", "\"", "N", "S", "C", "C", "\"", "]", ";", "\n", " ",
       " ", "A", "P", "I", "G", "a", "t", "e", "w", "a", "y", " ", "-", "-",
       ">", " ", "O", "C", "C", "[", "\"", "O", "C", "C", "\"", "]", ";",
       "\n", " ", " ", "A", "P", "I", "G", "a", "t", "e", "w", "a", "y", " ",
       "-", "-", ">", " ", "D", "T", "C", "[", "\"", "D", "T", "C", "\"",
       "]", ";", "\n", " ", " ", "A", "P", "I", "G", "a", "t", "e", "w", "a",
       "y", " ", "-", "-", ">", " ", "F", "e", "d", "[", "\"", "F", "e", "d",
       "\"", "]", ";", "\n", " ", " ", "A", "P", "I", "G", "a", "t", "e",
       "w", "a", "y", " ", "-", "-", ">", " ", "C", "l", "i", "e", "n", "t",
       "A", "P", "I", "[", "\"", "C", "l", "i", "e", "n", "t", " ", "A", "P",
       "I", "\"", "]", ";", "\n", " ", " ", "A", "P", "I", "G", "a", "t",
       "e", "w", "a", "y", " ", "-", "-", ">", " ", "F", "i", "n", "r", "a",
       "[", "\"", "F", "i", "n", "r", "a", "\"", "]", ";", "\n", " ", " ",
       "A", "P", "I", "G", "a", "t", "e", "w", "a", "y", " ", "-", "-", ">",
       " ", "O", "t", "h", "e", "r", "C", "o", "n", "s", "u", "m", "e", "r",
       "s", "[", "\"", "O", "t", "h", "e", "r", " ", "C", "o", "n", "s", "u",
       "m", "e", "r", "s", "\"", "]", ";", "\n", " ", " ", "N", "S", "C",
       "C", " ", "-", "-", ">", " ", "E", "n", "d", "[", "\"", "E", "n", "d",
       " ", "P", "r", "o", "c", "e", "s", "s", "\"", "]", ";", "\n", " ",
       " ", "O", "C", "C", " ", "-", "-", ">", " ", "E", "n", "d", ";", "\n",
       " ", " ", "D", "T", "C", " ", "-", "-", ">", " ", "E", "n", "d", ";",
       "\n", " ", " ", "F", "e", "d", " ", "-", "-", ">", " ", "E", "n", "d",
       ";", "\n", " ", " ", "C", "l", "i", "e", "n", "t", "A", "P", "I", " ",
       "-", "-", ">", " ", "E", "n", "d", ";", "\n", " ", " ", "F", "i", "n",
       "r", "a", " ", "-", "-", ">", " ", "E", "n", "d", ";", "\n", " ", " ",
       "O", "t", "h", "e", "r", "C", "o", "n", "s", "u", "m", "e", "r", "s",
       " ", "-", "-", ">", " ", "E", "n", "d", ";"
    >>]

\* retryRender: the checkout template literal
checkoutTemplate ==
    [orientation \in Orientations |->
    GraphKw \o orientation \o
    <<
       ";", "\n", " ", " ", "S", "t", "a", "r", "t", "[", "\"", "U", "s",
       "e", "r", " ", "B", "e", "g", "i", "n", "s", " ", "C", "h", "e", "c",
       "k", "o", "u", "t", "\"", "]", " ", "-", "-", ">", " ", "V", "i", "e",
       "w", "C", "a", "r", "t", "[", "\"", "V", "i", "e", "w", " ", "S", "h",
       "o", "p", "p", "i", "n", "g", " ", "C", "a", "r", "t", "\"", "]", ";",
       "\n", " ", " ", "V", "i", "e", "w", "C", "a", "r", "t", " ", "-", "-",
       ">", " ", "E", "n", "t", "e", "r", "A", "d", "d", "r", "e", "s", "s",
       "[", "\"", "E", "n", "t", "e", "r", " ", "S", "h", "i", "p", "p", "i",
       "n", "g", " ", "A", "d", "d", "r", "e", "s", "s", "\"", "]", ";",
       "\n", " ", " ", "E", "n", "t", "e", "r", "A", "d", "d", "r", "e", "s",
       "s", " ", "-", "-", ">", " ", "C", "h", "o", "o", "s", "e", "P", "a",
       "y", "m", "e", "n", "t", "[", "\"", "C", "h", "o", "o", "s", "e", " ",
       "P", "a", "y", "m", "e", "n", "t", " ", "M", "e", "t", "h", "o", "d",
       "\"", "]", ";", "\n", " ", " ", "C", "h", "o", "o", "s", "e", "P",
       "a", "y", "m", "e", "n", "t", " ", "-", "-", ">", "|", "C", "r", "e",
       "d", "i", "t", " ", "C", "a", "r", "d", "|", " ", "P", "r", "o", "c",
       "e", "s", "s", "C", "r", "e", "d", "i", "t", "C", "a", "r", "d", "[",
       "\"", "P", "r", "o", "c", "e", "s", "s", " ", "C", "r", "e", "d", "i",
       "t", " ", "C", "a", "r", "d", " ", "P", "a", "y", "m", "e", "n", "t",
       "\"", "]", ";", "\n", " ", " ", "P", "r", "o", "c", "e", "s", "s",
       "C", "r", "e", "d", "i", "t", "C", "a", "r", "d", " ", "-", "-", ">",
       " ", "C", "o", "n", "f", "i", "r", "m", "C", "r", "e", "d", "i", "t",
       "C", "a", "r", "d", "[", "\"", "C", "o", "n", "f", "i", "r", "m", " ",
       "C", "r", "e", "d", "i", "t", " ", "C", "a", "r", "d", " ", "P", "a",
       "y", "m", "e", "n", "t", "\"", "]", ";", "\n", " ", " ", "C", "h",
       "o", "o", "s", "e", "P", "a", "y", "m", "e", "n", "t", " ", "-", "-",
       ">", "|", "P", "a", "y", "P", "a", "l", "|", " ", "P", "r", "o", "c",
       "e", "s", "s", "P", "a", "y", "P", "a", "l", "[", "\"", "P", "r", "o",
       "c", "e", "s", "s", " ", "P", "a", "y", "P", "a", "l", " ", "P", "a",
       "y", "m", "e", "n", "t", "\"", "]", ";", "\n", " ", " ", "P", "r",
       "o", "c", "e", "s", "s", "P", "a", "y", "P", "a", "l", " ", "-", "-",
       ">", " ", "C", "o", "n", "f", "i", "r", "m", "P", "a", "y", "P", "a",
       "l", "[", "\"", "C", "o", "n", "f", "i", "r", "m", " ", "P", "a", "y",
       "P", "a", "l", " ", "P", "a", "y", "m", "e", "n", "t", "\"", "]", ";",
       "\n", " ", " ", "C", "o", "n", "f", "i", "r", "m", "C", "r", "e", "d",
       "i", "t", "C", "a", "r", "d", " ", "-", "-", ">", " ", "R", "e", "v",
       "i", "e", "w", "S", "u", "m", "m", "a", "r", "y", "[", "\"", "R", "e",
       "v", "i", "e", "w", " ", "O", "r", "d", "e", "r", " ", "S", "u", "m",
       "m", "a", "r", "y", "\"", "]", ";", "\n", " ", " ", "C", "o", "n",
       "f", "i", "r", "m", "P", "a", "y", "P", "a", "l", " ", "-", "-", ">",
       " ", "R", "e", "v", "i", "e", "w", "S", "u", "m", "m", "a", "r", "y",
       ";", "\n", " ", " ", "R", "e", "v", "i", "e", "w", "S", "u", "m", "m",
       "a", "r", "y", " ", "-", "-", ">", "|", "C", "o", "n", "f", "i", "r",
       "m", "|", " ", "D", "i", "s", "p", "a", "t", "c", "h", "O", "r", "d",
       "e", "r", "[", "\"", "D", "i", "s", "p", "a", "t", "c", "h", " ", "O",
       "r", "d", "e", "r", "\"", "]", ";", "\n", " ", " ", "D", "i", "s",
       "p", "a", "t", "c", "h", "O", "r", "d", "e", "r", " ", "-", "-", ">",
       " ", "D", "e", "l", "i", "v", "e", "r", "e", "d", "[", "\"", "O", "r",
       "d", "e", "r", " ", "M", "a", "r", "k", "e", "d", " ", "a", "s", " ",
       "D", "e", "l", "i", "v", "e", "r", "e", "d", "\"", "]", ";", "\n",
       " ", " ", "R", "e", "v", "i", "e", "w", "S", "u", "m", "m", "a", "r",
       "y", " ", "-", "-", ">", "|", "C", "a", "n", "c", "e", "l", "|", " ",
       "C", "a", "n", "c", "e", "l", "C", "h", "e", "c", "k", "o", "u", "t",
       "[", "\"", "C", "a", "n", "c", "e", "l", " ", "C", "h", "e", "c", "k",
       "o", "u", "t", "\"", "]", ";", "\n", " ", " ", "C", "a", "n", "c",
       "e", "l", "C", "h", "e", "c", "k", "o", "u", "t", " ", "-", "-", ">",
       " ", "E", "n", "d", "[", "\"", "C", "h", "e", "c", "k", "o", "u", "t",
       " ", "P", "r", "o", "c", "e", "s", "s", " ", "E", "n", "d", "s", "\"",
       "]", ";", "\n", " ", " ", "D", "e", "l", "i", "v", "e", "r", "e", "d",
       " ", "-", "-", ">", " ", "E", "n", "d", ";"
    >>]

\* useTemplate: templateCode for type "checkout"
checkoutTemplateCode ==
    [orientation \in Orientations |->
    GraphKw \o orientation \o
    <<
       ";", "\n", " ", " ", "S", "t", "a", "r", "t", "[", "\"", "U", "s",
       "e", "r", " ", "B", "e", "g", "i", "n", "s", " ", "C", "h", "e", "c",
       "k", "o", "u", "t", "\"", "]", " ", "-", "-", ">", " ", "V", "i", "e",
       "w", "C", "a", "r", "t", "[", "\"", "V", "i", "e", "w", " ", "S", "h",
       "o", "p", "p", "i", "n", "g", " ", "C", "a", "r", "t", "\"", "]", ";",
       "\n", " ", " ", "V", "i", "e", "w", "C", "a", "r", "t", " ", "-", "-",
       ">", " ", "E", "n", "t", "e", "r", "A", "d", "d", "r", "e", "s", "s",
       "[", "\"", "E", "n", "t", "e", "r", " ", "S", "h", "i", "p", "p", "i",
       "n", "g", " ", "A", "d", "d", "r", "e", "s", "s", "\"", "]", ";",
       "\n", " ", " ", "E", "n", "t", "e", "r", "A", "d", "d", "r", "e", "s",
       "s", " ", "-", "-", ">", " ", "C", "h", "o", "o", "s", "e", "P", "a",
       "y", "m", "e", "n", "t", "[", "\"", "C", "h", "o", "o", "s", "e", " ",
       "P", "a", "y", "m", "e", "n", "t", " ", "M", "e", "t", "h", "o", "d",
       "\"", "]", ";", "\n", " ", " ", "C", "h", "o", "o", "s", "e", "P",
       "a", "y", "m", "e", "n", "t", " ", "-", "-", ">", "|", "C", "r", "e",
       "d", "i", "t", " ", "C", "a", "r", "d", "|", " ", "P", "r", "o", "c",
       "e", "s", "s", "C", "r", "e", "d", "i", "t", "C", "a", "r", "d", "[",
       "\"", "P", "r", "o", "c", "e", "s", "s", " ", "C", "r", "e", "d", "i",
       "t", " ", "C", "a", "r", "d", " ", "P", "a", "y", "m", "e", "n", "t",
       "\"", "]", ";", "\n", " ", " ", "P", "r", "o", "c", "e", "s", "s",
       "C", "r", "e", "d", "i", "t", "C", "a", "r", "d", " ", "-", "-", ">",
       " ", "C", "o", "n", "f", "i", "r", "m", "C", "r", "e", "d", "i", "t",
       "C", "a", "r", "d", "[", "\"", "C", "o", "n", "f", "i", "r", "m", " ",
       "C", "r", "e", "d", "i", "t", " ", "C", "a", "r", "d", " ", "P", "a",
       "y", "m", "e", "n", "t", "\"", "]", ";", "\n", " ", " ", "C", "h",
       "o", "o", "s", "e", "P", "a", "y", "m", "e", "n", "t", " ", "-", "-",
       ">", "|", "P", "a", "y", "P", "a", "l", "|", " ", "P", "r", "o", "c",
       "e", "s", "s", "P", "a", "y", "P", "a", "l", "[", "\"", "P", "r", "o",
       "c", "e", "s", "s", " ", "P", "a", "y", "P", "a", "l", " ", "P", "a",
       "y", "m", "e", "n", "t", "\"", "]", ";", "\n", " ", " ", "P", "r",
       "o", "c", "e", "s", "s", "P", "a", "y", "P", "a", "l", " ", "-", "-",
       ">", " ", "C", "o", "n", "f", "i", "r", "m", "P", "a", "y", "P", "a",
       "l", "[", "\"", "C", "o", "n", "f", "i", "r", "m", " ", "P", "a", "y",
       "P", "a", "l", " ", "P", "a", "y", "m", "e", "n", "t", "\"", "]", ";",
       "\n", " ", " ", "C", "o", "n", "f", "i", "r", "m", "C", "r", "e", "d",
       "i", "t", "C", "a", "r", "d", " ", "-", "-", ">", " ", "R", "e", "v",
       "i", "e", "w", "S", "u", "m", "m", "a", "r", "y", "[", "\"", "R", "e",
       "v", "i", "e", "w", " ", "O", "r", "d", "e", "r", " ", "S", "u", "m",
       "m", "a", "r", "y", "\"", "]", ";", "\n", " ", " ", "C", "o", "n",
       "f", "i", "r", "m", "P", "a", "y", "P", "a", "l", " ", "-", "-", ">",
       " ", "R", "e", "v", "i", "e", "w", "S", "u", "m", "m", "a", "r", "y",
       ";", "\n", " ", " ", "R", "e", "v", "i", "e", "w", "S", "u", "m", "m",
       "a", "r", "y", " ", "-", "-", ">", "|", "C", "o", "n", "f", "i", "r",
       "m", "|", " ", "D", "i", "s", "p", "a", "t", "c", "h", "O", "r", "d",
       "e", "r", "[", "\"", "D", "i", "s", "p", "a", "t", "c", "h", " ", "O",
       "r", "d", "e", "r", "\"", "]", ";", "\n", " ", " ", "D", "i", "s",
       "p", "a", "t", "c", "h", "O", "r", "d", "e", "r", " ", "-", "-", ">",
       " ", "D", "e", "l", "i", "v", "e", "r", "e", "d", "[", "\"", "O", "r",
       "d", "e", "r", " ", "M", "a", "r", "k", "e", "d", " ", "a", "s", " ",
       "D", "e", "l", "i", "v", "e", "r", "e", "d", "\"", "]", ";", "\n",
       " ", " ", "R", "e", "v", "i", "e", "w", "S", "u", "m", "m", "a", "r",
       "y", " ", "-", "-", ">", "|", "C", "a", "n", "c", "e", "l", "|", " ",
       "C", "a", "n", "c", "e", "l", "C", "h", "e", "c", "k", "o", "u", "t",
       "[", "\"", "C", "a", "n", "c", "e", "l", " ", "C", "h", "e", "c", "k",
       "o", "u", "t", "\"", "]", ";", "\n", " ", " ", "C", "a", "n", "c",
       "e", "l", "C", "h", "e", "c", "k", "o", "u", "t", " ", "-", "-", ">",
       " ", "E", "n", "d", "[", "\"", "C", "h", "e", "c", "k", "o", "u", "t",
       " ", "P", "r", "o", "c", "e", "s", "s", " ", "E", "n", "d", "s", "\"",
       "]", ";", "\n", " ", " ", "D", "e", "l", "i", "v", "e", "r", "e", "d",
       " ", "-", "-", ">", " ", "E", "n", "d", ";"
    >>]

\* useTemplate: templateCode for type "buyorder"
buyorderTemplateCode ==
    [orientation \in Orientations |->
    GraphKw \o orientation \o
    <<
       ";", "\n", " ", " ", "S", "t", "a", "r", "t", "[", "\"", "R", "e",
       "c", "e", "i", "v", "e", " ", "B", "u", "y", " ", "O", "r", "d", "e",
       "r", "\"", "]", " ", "-", "-", ">", " ", "V", "a", "l", "i", "d", "a",
       "t", "e", "T", "o", "k", "e", "n", "[", "\"", "V", "a", "l", "i", "d",
       "a", "t", "e", " ", "A", "u", "t", "h", "e", "n", "t", "i", "c", "a",
       "t", "i", "o", "n", " ", "T", "o", "k", "e", "n", "\"", "]", ";",
       "\n", " ", " ", "V", "a", "l", "i", "d", "a", "t", "e", "T", "o", "k",
       "e", "n", " ", "-", "-", ">", " ", "C", "l", "e", "a", "n", "R", "e",
       "q", "u", "e", "s", "t", "[", "\"", "C", "l", "e", "a", "n", " ", "a",
       "n", "d", " ", "S", "t", "a", "n", "d", "a", "r", "d", "i", "z", "e",
       " ", "R", "e", "q", "u", "e", "s", "t", "\"", "]", ";", "\n", " ",
       " ", "C", "l", "e", "a", "n", "R", "e", "q", "u", "e", "s", "t", " ",
       "-", "-", ">", " ", "S", "e", "n", "d", "R", "e", "q", "u", "e", "s",
       "t", "[", "\"", "S", "e", "n", "d", " ", "R", "e", "q", "u", "e", "s",
       "t", " ", "t", "o", " ", "T", "r", "a", "d", "e", " ", "S", "e", "r",
       "v", "i", "c", "e", "\"", "]", ";", "\n", " ", " ", "S", "e", "n",
       "d", "R", "e", "q", "u", "e", "s", "t", " ", "-", "-", ">", " ", "T",
       "r", "a", "d", "e", "S", "e", "r", "v", "i", "c", "e", "[", "\"", "T",
       "r", "a", "d", "e", " ", "S", "e", "r", "v", "i", "c", "e", "\"", "]",
       ";", "\n", " ", " ", "T", "r", "a", "d", "e", "S", "e", "r", "v", "i",
       "c", "e", " ", "-", "-", ">", " ", "A", "u", "t", "h", "o", "r", "i",
       "z", "e", "P", "a", "r", "s", "e", "[", "\"", "A", "u", "t", "h", "o",
       "r", "i", "z", "a", "t", "i", "o", "n", " ", "&", " ", "P", "a", "r",
       "s", "i", "n", "g", "\"", "]", ";", "\n", " ", " ", "T", "r", "a",
       "d", "e", "S", "e", "r", "v", "i", "c", "e", " ", "-", "-", ">", " ",
       "N", "o", "r", "m", "a", "l", "i", "z", "e", "D", "a", "t", "a", "[",
       "\"", "N", "o", "r", "m", "a", "l", "i", "z", "e", " ", "T", "r", "a",
       "d", "e", " ", "D", "a", "t", "a", "\"", "]", ";", "\n", " ", " ",
       "T", "r", "a", "d", "e", "S", "e", "r", "v", "i", "c", "e", " ", "-",
       "-", ">", " ", "V", "a", "l", "i", "d", "a", "t", "e", "T", "r", "a",
       "d", "e", "[", "\"", "V", "a", "l", "i", "d", "a", "t", "e", " ", "T",
       "r", "a", "d", "e", "\"", "]", ";", "\n", " ", " ", "T", "r", "a",
       "d", "e", "S", "e", "r", "v", "i", "c", "e", " ", "-", "-", ">", " ",
       "E", "n", "r", "i", "c", "h", "D", "a", "t", "a", "[", "\"", "E", "n",
       "r", "i", "c", "h", " ", "T", "r", "a", "d", "e", " ", "D", "a", "t",
       "a", "\"", "]", ";", "\n", " ", " ", "T", "r", "a", "d", "e", "S",
       "e", "r", "v", "i", "c", "e", " ", "-", "-", ">", " ", "B", "u", "s",
       "i", "n", "e", "s", "s", "E", "v", "e", "n", "t", "[", "\"", "B", "u",
       "s", "i", "n", "e", "s", "s", " ", "E", "v", "e", "n", "t", " ", "G",
       "e", "n", "e", "r", "a", "t", "i", "o", "n", "\"", "]", ";", "\n",
       " ", " ", "B", "u", "s", "i", "n", "e", "s", "s", "E", "v", "e", "n",
       "t", " ", "-", "-", ">", " ", "K", "a", "f", "k", "a", "T", "o", "p",
       "i", "c", "s", "[", "\"", "E", "m", "i", "t", " ", "K", "a", "f", "k",
       "a", " ", "T", "o", "p", "i", "c", "s", "\"", "]", ";", "\n", " ",
       " ", "K", "a", "f", "k", "a", "T", "o", "p", "i", "c", "s", " ", "-",
       "-", ">", " ", "N", "e", "w", "T", "r", "a", "d", "e", "[", "\"", "N",
       "e", "w", " ", "T", "r", "a", "d", "e", " ", "T", "o", "p", "i", "c",
       "\"", "]", ";", "\n", " ", " ", "K", "a", "f", "k", "a", "T", "o",
       "p", "i", "c", "s", " ", "-", "-", ">", " ", "A", "m", "e", "n", "d",
       "e", "d", "T", "r", "a", "d", "e", "[", "\"", "A", "m", "e", "n", "d",
       "e", "d", " ", "T", "r", "a", "d", "e", " ", "T", "o", "p", "i", "c",
       "\"", "]", ";", "\n", " ", " ", "K", "a", "f", "k", "a", "T", "o",
       "p", "i", "c", "s", " ", "-", "-", ">", " ", "C", "a", "n", "c", "e",
       "l", "e", "d", "T", "r", "a", "d", "e", "[", "\"", "C", "a", "n", "c",
       "e", "l", "e", "d", " ", "T", "r", "a", "d", "e", " ", "T", "o", "p",
       "i", "c", "\"", "]", ";", "\n", " ", " ", "N", "e", "w", "T", "r",
       "a", "d", "e", " ", "-", "-", ">", " ", "E", "v", "e", "n", "t", "C",
       "o", "n", "s", "u", "m", "e", "r", "s", "[", "\"", "E", "v", "e", "n",
       "t", " ", "C", "o", "n", "s", "u", "m", "e", "r", "s", "\"", "]", ";",
       "\n", " ", " ", "A", "m", "e", "n", "d", "e", "d", "T", "r", "a", "d",
       "e", " ", "-", "-", ">", " ", "E", "v", "e", "n", "t", "C", "o", "n",
       "s", "u", "m", "e", "r", "s", ";", "\n", " ", " ", "C", "a", "n", "c",
       "e", "l", "e", "d", "T", "r", "a", "d", "e", " ", "-", "-", ">", " ",
       "E", "v", "e", "n", "t", "C", "o", "n", "s", "u", "m", "e", "r", "s",
       ";", "\n", " ", " ", "E", "v", "e", "n", "t", "C", "o", "n", "s", "u",
       "m", "e", "r", "s", " ", "-", "-", ">", " ", "A", "P", "I", "G", "a",
       "t", "e", "w", "a", "y", "[", "\"", "A", "P", "I", " ", "G", "a", "t",
       "e", "w", "a", "y", "\"", "]", ";", "\n", " ", " ", "A", "P", "I",
       "G", "a", "t", "e", "w", "a", "y", " ", "-", "-", ">", " ", "N", "S",
       "C", "C", "[", "\"", "N", "S", "C", "C", "\"", "]", ";", "\n", " ",
       " ", "A", "P", "I", "G", "a", "t", "e", "w", "a", "y", " ", "-", "-",
       ">", " ", "O", "C", "C", "[", "\"", "O", "C", "C", "\"", "]", ";",
       "\n", " ", " ", "A", "P", "I", "G", "a", "t", "e", "w", "a", "y", " ",
       "-", "-", ">", " ", "D", "T", "C", "[", "\"", "D", "T", "C", "\"",
       "]", ";", "\n", " ", " ", "A", "P", "I", "G", "a", "t", "e", "w", "a",
       "y", " ", "-", "-", ">", " ", "F", "e", "d", "[", "\"", "F", "e", "d",
       "\"", "]", ";", "\n", " ", " ", "A", "P", "I", "G", "a", "t", "e",
       "w", "a", "y", " ", "-", "-", ">", " ", "C", "l", "i", "e", "n", "t",
       "A", "P", "I", "[", "\"", "C", "l", "i", "e", "n", "t", " ", "A", "P",
       "I", "\"", "]", ";", "\n", " ", " ", "A", "P", "I", "G", "a", "t",
       "e", "w", "a", "y", " ", "-", "-", ">", " ", "F", "i", "n", "r", "a",
       "[", "\"", "F", "i", "n", "r", "a", "\"", "]", ";", "\n", " ", " ",
       "A", "P", "I", "G", "a", "t", "e", "w", "a", "y", " ", "-", "-", ">",
       " ", "O", "t", "h", "e", "r", "C", "o", "n", "s", "u", "m", "e", "r",
       "s", "[", "\"", "O", "t", "h", "e", "r", " ", "C", "o", "n", "s", "u",
       "m", "e", "r", "s", "\"", "]", ";", "\n", " ", " ", "N", "S", "C",
       "C", " ", "-", "-", ">", " ", "E", "n", "d", "[", "\"", "E", "n", "d",
       " ", "P", "r", "o", "c", "e", "s", "s", "\"", "]", ";", "\n", " ",
       " ", "O", "C", "C", " ", "-", "-", ">", " ", "E", "n", "d", ";", "\n",
       " ", " ", "D", "T", "C", " ", "-", "-", ">", " ", "E", "n", "d", ";",
       "\n", " ", " ", "F", "e", "d", " ", "-", "-", ">", " ", "E", "n", "d",
       ";", "\n", " ", " ", "C", "l", "i", "e", "n", "t", "A", "P", "I", " ",
       "-", "-", ">", " ", "E", "n", "d", ";", "\n", " ", " ", "F", "i", "n",
       "r", "a", " ", "-", "-", ">", " ", "E", "n", "d", ";", "\n", " ", " ",
       "O", "t", "h", "e", "r", "C", "o", "n", "s", "u", "m", "e", "r", "s",
       " ", "-", "-", ">", " ", "E", "n", "d", ";"
    >>]

\* useTemplate: templateCode for type "registration"
registrationTemplateCode ==
    [orientation \in Orientations |->
    GraphKw \o orientation \o
    <<
       ";", "\n", " ", " ", "S", "t", "a", "r", "t", "[", "\"", "U", "s",
       "e", "r", " ", "B", "e", "g", "i", "n", "s", " ", "R", "e", "g", "i",
       "s", "t", "r", "a", "t", "i", "o", "n", "\"", "]", " ", "-", "-", ">",
       " ", "R", "e", "g", "i", "s", "t", "e", "r", "[", "\"", "R", "e", "g",
       "i", "s", "t", "e", "r", " ", "U", "s", "e", "r", "\"", "]", ";",
       "\n", " ", " ", "R", "e", "g", "i", "s", "t", "e", "r", " ", "-", "-",
       ">", " ", "E", "n", "t", "e", "r", "D", "e", "t", "a", "i", "l", "s",
       "[", "\"", "E", "n", "t", "e", "r", " ", "U", "s", "e", "r", " ", "D",
       "e", "t", "a", "i", "l", "s", "\"", "]", ";", "\n", " ", " ", "E",
       "n", "t", "e", "r", "D", "e", "t", "a", "i", "l", "s", " ", "-", "-",
       ">", " ", "V", "a", "l", "i", "d", "a", "t", "e", "[", "\"", "V", "a",
       "l", "i", "d", "a", "t", "e", " ", "I", "n", "p", "u", "t", "\"", "]",
       ";", "\n", " ", " ", "V", "a", "l", "i", "d", "a", "t", "e", " ", "-",
       "-", ">", "|", "V", "a", "l", "i", "d", "|", " ", "S", "u", "c", "c",
       "e", "s", "s", "[", "\"", "A", "c", "c", "o", "u", "n", "t", " ", "C",
       "r", "e", "a", "t", "e", "d", "\"", "]", ";", "\n", " ", " ", "V",
       "a", "l", "i", "d", "a", "t", "e", " ", "-", "-", ">", "|", "I", "n",
       "v", "a", "l", "i", "d", "|", " ", "R", "e", "t", "r", "y", "[", "\"",
       "R", "e", "t", "r", "y", " ", "R", "e", "g", "i", "s", "t", "r", "a",
       "t", "i", "o", "n", "\"", "]", ";", "\n", " ", " ", "R", "e", "t",
       "r", "y", " ", "-", "-", ">", " ", "E", "n", "t", "e", "r", "D", "e",
       "t", "a", "i", "l", "s", ";", "\n", " ", " ", "S", "u", "c", "c", "e",
       "s", "s", " ", "-", "-", ">", " ", "E", "n", "d", "[", "\"", "R", "e",
       "g", "i", "s", "t", "r", "a", "t", "i", "o", "n", " ", "C", "o", "m",
       "p", "l", "e", "t", "e", "\"", "]", ";"
    >>]

(***************************************************************************)
(* retryRender, lines 244-279: the repair pipeline.                        *)
(***************************************************************************)
\* A first step that prepends the declaration to every source.
fixOrientationPrepending(s, orientation) ==
    GraphKw \o orientation \o <<";", "\n">> \o s

\* if (!startsWith('graph ')) prepend the declaration; else if
\* (!startsWith(`graph ${orientation}`)) replace(/^graph [A-Z]+/, ...)
fixOrientation(s, orientation) ==
    IF ~startsWith(s, GraphKw)
    THEN GraphKw \o orientation \o <<";", "\n">> \o s
    ELSE IF ~startsWith(s, GraphKw \o orientation)
    THEN LET u == GraphDeclEnd(s)
         IN  IF u = 0 THEN s
             ELSE GraphKw \o orientation \o SubSeq(s, u + 1, Len(s))
    ELSE s

\* if (!match(/^graph [A-Z]+;/)) replace(/^(graph [A-Z]+)(\s|$)/, '$1;\n')
fixDeclarationEnd(s) ==
    LET u == GraphDeclEnd(s)
    IN  IF u = 0 THEN s
        ELSE IF MatchLit(s, u + 1, <<";">>) THEN s
        ELSE IF u = Len(s) THEN s \o <<";", "\n">>
        ELSE IF s[u + 1] \in Whitespace
        THEN SubSeq(s, 1, u) \o <<";", "\n">> \o SubSeq(s, u + 2, Len(s))
        ELSE s

\* A chain that adds the terminators of node lines before it inserts the
\* connectors.
applyCommonFixesTerminatorsFirst(s) ==
    applyRules(ReplaceAll(s, "nodeNewline"), 1)

\* The chain of global replacements, in the order of the source.
applyCommonFixes(s) == applyRules(s, 1)

\* The text retryRender hands to renderDiagram on its repair branch.
fixedDiagram(raw, orientation) ==
    applyCommonFixes(fixDeclarationEnd(fixOrientation(trim(raw), orientation)))

(***************************************************************************)
(* Bounds and input domains.                                               *)
(***************************************************************************)
\* Most renders that may be suspended at `await mermaid.render` at once.
MaxPending == 1

\* Most orientation changes explored in one session.
MaxOrientationChanges == 1

\* Most tokens in the body of a source handed to the repair pipeline.
MaxTokens == 3

\* The prompt in the textarea when the button is clicked: empty, blank,
\* not blank.
Prompts == {<<>>, <<" ">>, <<"p">>}

\* Sources the generator returns (response.data.mermaid_code): two adjacent
\* nodes with no connector; a flow that mentions an order and a payment;
\* a flow that mentions a buy order.
srcPlain ==
    <<"A", "[", "\"", "x", "\"", "]", " ", "B", "[", "\"", "y", "\"", "]">>
srcCheckout ==
    <<"C", "[", "\"", "O", "r", "d", "e", "r", "\"", "]", "-", "-", ">",
      "|", "o", "k", "|", "P", "[", "\"", "P", "a", "y", "m", "e", "n", "t",
      "\"", "]">>
srcBuyOrder ==
    <<"g", "r", "a", "p", "h", " ", "L", "R", "\n", "S", "[", "\"", "B", "u",
      "y", " ", "O", "r", "d", "e", "r", "\"", "]">>
GeneratedSources == {srcPlain, srcCheckout, srcBuyOrder}

\* The buttons of the template selector.
TemplateTypes == {"checkout", "buyorder", "registration"}

(***************************************************************************)
(* State of the Home component.                                            *)
(***************************************************************************)
VARIABLES
    diagram,      \* useState: the generated source
    rawDiagram,   \* useState: the stored raw source
    isLoading,    \* useState
    error,        \* useState: "" or a message
    orientation,  \* useState: TD or LR
    container,    \* what diagramRef.current holds
    renders,      \* renderDiagram calls suspended at `await mermaid.render`
    request,      \* the axios.post of generateDiagram is in flight
    event,        \* bookkeeping: the handler that ran last
    attempt,      \* bookkeeping: the kind of source that handler passed to
                  \* the renderer ("none" when it started no render)
    changes,      \* bookkeeping: orientation changes made in the session
    req,          \* pages/api/generate.js: the request the handler serves
    res,          \* the responses the handler has sent for it, in order
    hpc,          \* the handler's position: idle, start, awaiting, done
    backend       \* how the handler's axios.post to the backend settled

\* The state of the page and the state of the API route.
pageVars == <<diagram, rawDiagram, isLoading, error, orientation,
              container, renders, request, event, attempt, changes>>

apiVars == <<req, res, hpc, backend>>

vars == <<diagram, rawDiagram, isLoading, error, orientation,
          container, renders, request, event, attempt, changes,
          req, res, hpc, backend>>

NoError == ""
ErrNoPrompt == "Please enter a description for your diagram"
ErrGenerate == "Failed to generate diagram"
ErrSyntax == "Diagram syntax error: Unknown error"

NoAttempt == "none"
EmptyContainer == [owner |-> 0, show |-> "none", code |-> <<>>]

\* The ways one renderDiagram call can go: mermaid.init returns; mermaid.init
\* throws and so does the fallback before it suspends; mermaid.init throws
\* and the call suspends at `await mermaid.render`.
Outcomes ==
    {"rendered", "threw"} \cup
    (IF Cardinality(renders) < MaxPending THEN {"suspended"} ELSE {})

\* The id of the container a suspended call created (Date.now() in the
\* source): the least number no suspended call holds.
FreshId ==
    LET used == {r.id : r \in renders}
    IN  CHOOSE k \in 1..MaxPending :
            k \notin used /\ \A j \in 1..(k - 1) : j \in used

(***************************************************************************)
(* renderDiagram, lines 51-130, up to its first suspension: the values it  *)
(* leaves in the container, the suspended calls and the error.  `mounted`  *)
(* is diagramRef.current being set: the container exists only while        *)
(* `diagram` is not empty.                                                 *)
(***************************************************************************)
renderDiagram(diagramCode, mounted, outcome, via) ==
    IF diagramCode = <<>> \/ ~mounted
    THEN [container |-> container, renders |-> renders, error |-> error,
          attempt |-> NoAttempt]
    ELSE CASE outcome = "rendered" ->
                [container |-> [owner |-> 0, show |-> "diagram",
                                code |-> diagramCode],
                 renders |-> renders, error |-> NoError,
                 attempt |-> via]
           [] outcome = "threw" ->
                [container |-> [owner |-> 0, show |-> "raw",
                                code |-> diagramCode],
                 renders |-> renders, error |-> ErrSyntax,
                 attempt |-> via]
           [] outcome = "suspended" ->
                [container |-> [owner |-> FreshId, show |-> "blank",
                                code |-> diagramCode],
                 renders |-> renders \cup
                     {[id |-> FreshId, code |-> diagramCode,
                       superseded |-> FALSE]},
                 error |-> error,
                 attempt |-> via]

\* `await mermaid.render` resolves: the callback fills the container this
\* call created (which is on the page only if no later call replaced it)
\* and setError("") runs.
RenderResolved ==
    \E r \in renders :
        /\ renders' = renders \ {r}
        /\ container' =
               IF container.owner = r.id
               THEN [owner |-> 0, show |-> "diagram", code |-> r.code]
               ELSE container
        /\ error' = NoError
        /\ event' = "resolved"
        /\ attempt' = NoAttempt
        /\ UNCHANGED <<diagram, rawDiagram, isLoading, orientation, request, changes,
                       apiVars>>

\* `await mermaid.render` rejects: the catch block stores the error and
\* replaces the content of diagramRef.current by the raw code.
RenderRejected ==
    \E r \in renders :
        /\ renders' = renders \ {r}
        /\ container' = [owner |-> 0, show |-> "raw", code |-> r.code]
        /\ error' = ErrSyntax
        /\ event' = "rejected"
        /\ attempt' = NoAttempt
        /\ UNCHANGED <<diagram, rawDiagram, isLoading, orientation, request, changes,
                       apiVars>>

\* The renderer's verdict delivered by the last step: by a settled
\* suspended call, or at once by the call the handler made.
Verdict ==
    IF event = "resolved" THEN "accepted"
    ELSE IF event = "rejected" THEN "rejected"
    ELSE IF attempt # NoAttempt /\ container.show = "diagram" THEN "accepted"
    ELSE IF attempt # NoAttempt /\ container.show = "raw" THEN "rejected"
    ELSE "none"

(***************************************************************************)
(* The orientation buttons.                                                *)
(***************************************************************************)
SetOrientation ==
    \E o \in Orientations :
        /\ o # orientation
        /\ changes < MaxOrientationChanges
        /\ changes' = changes + 1
        /\ orientation' = o
        /\ event' = "setOrientation"
        /\ attempt' = NoAttempt
        /\ UNCHANGED <<diagram, rawDiagram, isLoading, error, container,
                       renders, request, apiVars>>

(***************************************************************************)
(* generateDiagram, lines 142-163, up to `await axios.post`.  The button   *)
(* is disabled while isLoading.  Suspended renders are marked superseded   *)
(* when a request is submitted.                                            *)
(***************************************************************************)
\* A button that stays enabled while a request is in flight.
GenerateDiagramWhileLoading ==
    /\ \E input \in Prompts :
           IF trim(input) = <<>>
           THEN /\ error' = ErrNoPrompt
                /\ UNCHANGED <<isLoading, request, renders>>
           ELSE /\ isLoading' = TRUE
                /\ error' = NoError
                /\ request' = TRUE
                /\ renders' =
                       {[r EXCEPT !.superseded = TRUE] : r \in renders}
    /\ event' = "generateDiagram"
    /\ attempt' = NoAttempt
    /\ UNCHANGED <<diagram, rawDiagram, orientation, container, changes,
                   apiVars>>

GenerateDiagram ==
    /\ ~isLoading
    /\ \E input \in Prompts :
           IF trim(input) = <<>>
           THEN /\ error' = ErrNoPrompt
                /\ UNCHANGED <<isLoading, request, renders>>
           ELSE /\ isLoading' = TRUE
                /\ error' = NoError
                /\ request' = TRUE
                /\ renders' =
                       {[r EXCEPT !.superseded = TRUE] : r \in renders}
    /\ event' = "generateDiagram"
    /\ attempt' = NoAttempt
    /\ UNCHANGED <<diagram, rawDiagram, orientation, container, changes,
                   apiVars>>

\* The [diagram] effect, lines 132-140: it runs when `diagram` changed and
\* is not empty; by then the container is mounted.
diagramEffect(code, outcome) ==
    IF code # diagram /\ code # <<>>
    THEN \E r \in {renderDiagram(code, TRUE, outcome, "generated")} :
             /\ rawDiagram' = code
             /\ container' = r.container
             /\ renders' = r.renders
             /\ error' = r.error
             /\ attempt' = r.attempt
    ELSE /\ attempt' = NoAttempt
         /\ UNCHANGED <<rawDiagram, container, renders, error>>

\* axios.post resolves: setDiagram(response.data.mermaid_code), then
\* setIsLoading(false), then the effect.
GenerateResponse ==
    /\ request
    /\ \E code \in GeneratedSources :
       \E outcome \in Outcomes :
           /\ diagram' = code
           /\ diagramEffect(code, outcome)
    /\ request' = FALSE
    /\ isLoading' = FALSE
    /\ event' = "response"
    /\ UNCHANGED <<orientation, changes,
                   apiVars>>

\* A failure that also drops the diagram generated before.
GenerateFailureClearingDiagram ==
    /\ request
    /\ request' = FALSE
    /\ diagram' = <<>>
    /\ error' = ErrGenerate
    /\ isLoading' = FALSE
    /\ event' = "failure"
    /\ attempt' = NoAttempt
    /\ UNCHANGED <<rawDiagram, orientation, container, renders, changes,
                   apiVars>>

\* A failure whose handler lacks the `finally`: the loading flag stays set.
GenerateFailureStillLoading ==
    /\ request
    /\ request' = FALSE
    /\ error' = ErrGenerate
    /\ event' = "failure"
    /\ attempt' = NoAttempt
    /\ UNCHANGED <<diagram, rawDiagram, isLoading, orientation, container,
                   renders, changes, apiVars>>

\* axios.post rejects: setError(message), then setIsLoading(false).
GenerateFailure ==
    /\ request
    /\ request' = FALSE
    /\ error' = ErrGenerate
    /\ isLoading' = FALSE
    /\ event' = "failure"
    /\ attempt' = NoAttempt
    /\ UNCHANGED <<diagram, rawDiagram, orientation, container, renders, changes,
                   apiVars>>

(***************************************************************************)
(* retryRender, lines 166-285.  The button exists while `error` is set.    *)
(***************************************************************************)
ShoppingCart == <<"S", "h", "o", "p", "p", "i", "n", "g", " ", "C", "a", "r", "t">>
Checkout == <<"C", "h", "e", "c", "k", "o", "u", "t">>
Payment == <<"P", "a", "y", "m", "e", "n", "t">>
Order == <<"O", "r", "d", "e", "r">>
BuyOrder == <<"B", "u", "y", " ", "O", "r", "d", "e", "r">>
Trade == <<"T", "r", "a", "d", "e">>
Kafka == <<"K", "a", "f", "k", "a">>
Client == <<"C", "l", "i", "e", "n", "t">>
Service == <<"S", "e", "r", "v", "i", "c", "e">>
ConfirmPayPalReviewOrder ==
    ConfirmPayPal \o <<" ">> \o Review \o Order

isCheckoutDiagram(raw) ==
    \/ includes(raw, ShoppingCart)
    \/ includes(raw, Checkout)
    \/ includes(raw, Payment)
    \/ includes(raw, Order)

isBuyOrderDiagram(raw) ==
    \/ includes(raw, BuyOrder)
    \/ (includes(raw, Trade) /\ includes(raw, Kafka))
    \/ (includes(raw, Client) /\ includes(raw, Service))

\* A choice whose checkout branch leaves out the test of `error`.
retryChoiceWithoutError ==
    IF isBuyOrderDiagram(rawDiagram)
    THEN [via |-> "template", code |-> buyOrderTemplate[orientation]]
    ELSE IF /\ isCheckoutDiagram(rawDiagram)
            /\ includes(rawDiagram, ConfirmPayPalReviewOrder)
    THEN [via |-> "template", code |-> checkoutTemplate[orientation]]
    ELSE [via |-> "repair", code |-> fixedDiagram(rawDiagram, orientation)]

\* A choice whose repair works on the text the container shows, the
\* output of an earlier repair included.
retryChoiceOnShownSource ==
    IF isBuyOrderDiagram(rawDiagram)
    THEN [via |-> "template", code |-> buyOrderTemplate[orientation]]
    ELSE IF /\ isCheckoutDiagram(rawDiagram)
            /\ (error # NoError \/ includes(rawDiagram, ConfirmPayPalReviewOrder))
    THEN [via |-> "template", code |-> checkoutTemplate[orientation]]
    ELSE [via |-> "repair",
          code |-> fixedDiagram(IF container.code # <<>> THEN container.code
                                ELSE rawDiagram, orientation)]

\* A choice that tests for a checkout source first.
retryChoiceCheckoutFirst ==
    IF /\ isCheckoutDiagram(rawDiagram)
       /\ (error # NoError \/ includes(rawDiagram, ConfirmPayPalReviewOrder))
    THEN [via |-> "template", code |-> checkoutTemplate[orientation]]
    ELSE IF isBuyOrderDiagram(rawDiagram)
    THEN [via |-> "template", code |-> buyOrderTemplate[orientation]]
    ELSE [via |-> "repair", code |-> fixedDiagram(rawDiagram, orientation)]

\* A choice whose copies of the templates have drifted from the ones of
\* useTemplate: they lack the last terminator.
retryChoiceDriftedTemplates ==
    IF isBuyOrderDiagram(rawDiagram)
    THEN [via |-> "template",
          code |-> SubSeq(buyOrderTemplate[orientation], 1,
                          Len(buyOrderTemplate[orientation]) - 1)]
    ELSE IF /\ isCheckoutDiagram(rawDiagram)
            /\ (error # NoError \/ includes(rawDiagram, ConfirmPayPalReviewOrder))
    THEN [via |-> "template",
          code |-> SubSeq(checkoutTemplate[orientation], 1,
                          Len(checkoutTemplate[orientation]) - 1)]
    ELSE [via |-> "repair", code |-> fixedDiagram(rawDiagram, orientation)]

\* The branch retryRender takes and the source it passes to renderDiagram.
retryChoice ==
    IF isBuyOrderDiagram(rawDiagram)
    THEN [via |-> "template", code |-> buyOrderTemplate[orientation]]
    ELSE IF /\ isCheckoutDiagram(rawDiagram)
            /\ (error # NoError \/ includes(rawDiagram, ConfirmPayPalReviewOrder))
    THEN [via |-> "template", code |-> checkoutTemplate[orientation]]
    ELSE [via |-> "repair", code |-> fixedDiagram(rawDiagram, orientation)]

\* A retry offered whether or not an error is stored.
RetryRenderAlwaysOffered ==
    /\ IF rawDiagram = <<>>
       THEN /\ attempt' = NoAttempt
            /\ UNCHANGED <<container, renders, error>>
       ELSE \E c \in {retryChoice} :
            \E outcome \in Outcomes :
            \E r \in {renderDiagram(c.code, diagram # <<>>, outcome, c.via)} :
                /\ container' = r.container
                /\ renders' = r.renders
                /\ error' = r.error
                /\ attempt' = r.attempt
    /\ event' = "retryRender"
    /\ UNCHANGED <<diagram, rawDiagram, isLoading, orientation, request, changes,
                   apiVars>>

RetryRender ==
    /\ error # NoError
    /\ IF rawDiagram = <<>>
       THEN /\ attempt' = NoAttempt
            /\ UNCHANGED <<container, renders, error>>
       ELSE \E c \in {retryChoice} :
            \E outcome \in Outcomes :
            \E r \in {renderDiagram(c.code, diagram # <<>>, outcome, c.via)} :
                /\ container' = r.container
                /\ renders' = r.renders
                /\ error' = r.error
                /\ attempt' = r.attempt
    /\ event' = "retryRender"
    /\ UNCHANGED <<diagram, rawDiagram, isLoading, orientation, request, changes,
                   apiVars>>

(***************************************************************************)
(* useTemplate, lines 288-361.  The buttons exist while `error` is set.    *)
(***************************************************************************)
\* A lookup that falls back to the checkout template.
templateCodeWithDefault(type) ==
    IF type = "buyorder" THEN buyorderTemplateCode[orientation]
    ELSE IF type = "registration" THEN registrationTemplateCode[orientation]
    ELSE checkoutTemplateCode[orientation]

\* A lookup whose templates declare the default orientation.
templateCodeDeclaringTD(type) ==
    IF type = "checkout" THEN checkoutTemplateCode[TD]
    ELSE IF type = "buyorder" THEN buyorderTemplateCode[TD]
    ELSE IF type = "registration" THEN registrationTemplateCode[TD]
    ELSE <<>>

templateCode(type) ==
    IF type = "checkout" THEN checkoutTemplateCode[orientation]
    ELSE IF type = "buyorder" THEN buyorderTemplateCode[orientation]
    ELSE IF type = "registration" THEN registrationTemplateCode[orientation]
    ELSE <<>>

\* useTemplate(type): the lookup, and for a template found the store, the
\* render and the clearing of the error.
useTemplate(type) ==
    /\ \E outcome \in Outcomes :
           IF templateCode(type) # <<>>
           THEN \E r \in {renderDiagram(templateCode(type), diagram # <<>>,
                                        outcome, "template")} :
                    /\ rawDiagram' = templateCode(type)
                    /\ container' = r.container
                    /\ renders' = r.renders
                    /\ error' = NoError
                    /\ attempt' = r.attempt
           ELSE /\ attempt' = NoAttempt
                /\ UNCHANGED <<rawDiagram, container, renders, error>>
    /\ event' = "useTemplate"
    /\ UNCHANGED <<diagram, isLoading, orientation, request, changes,
                   apiVars>>

\* Template buttons that are on the page whether or not an error is stored.
UseTemplateAlwaysOffered ==
    \E type \in TemplateTypes : useTemplate(type)

\* One of the three template buttons is pressed.
UseTemplate ==
    /\ error # NoError
    /\ \E type \in TemplateTypes : useTemplate(type)

(***************************************************************************)
(* pages/api/generate.js: the API route the page posts its prompt to.      *)
(* JavaScript values are strings here; Undef stands for undefined or for   *)
(* a property that is absent.                                              *)
(***************************************************************************)
Undef == "undefined"

\* !x is false: x is neither undefined nor the empty string.
truthy(x) == x \notin {Undef, ""}

\* a || b
orElse(a, b) == IF truthy(a) THEN a ELSE b

Methods == {"GET", "POST"}

\* req.body: absent, or an object that may hold prompt and orientation.
RequestBodies ==
    {[present |-> FALSE, prompt |-> Undef, orientation |-> Undef]}
        \cup [present : {TRUE}, prompt : {Undef, "", "p"},
              orientation : {Undef, "TD", "LR"}]

Requests == [method : Methods, body : RequestBodies]

NoRequest ==
    [method |-> "none",
     body |-> [present |-> FALSE, prompt |-> Undef, orientation |-> Undef]]

\* What the backend replies with: null, a string, or an object with any of
\* success, mermaid_code, message, error and detail.
NullData ==
    [kind |-> "null", text |-> Undef, success |-> Undef,
     mermaid_code |-> Undef, message |-> Undef, error |-> Undef,
     detail |-> Undef]

BackendData ==
    {NullData}
        \cup [kind : {"string"}, text : {"", "code"}, success : {Undef},
              mermaid_code : {Undef}, message : {Undef}, error : {Undef},
              detail : {Undef}]
        \cup [kind : {"object"}, text : {Undef},
              success : {Undef, "true", "false"},
              mermaid_code : {Undef, "", "code"},
              message : {Undef, "m"}, error : {Undef, "e"},
              detail : {Undef, "d"}]

\* The statuses of a backend error response; 0 stands for a status that is
\* missing.
BackendStatuses == {0, 404, 500}

\* How axios.post settles: resolved with data; rejected with a response
\* (a status outside 2xx); rejected with a request and no response;
\* rejected with neither.
Settlements ==
    [kind : {"resolved"}, status : {200}, data : BackendData]
        \cup [kind : {"response"}, status : BackendStatuses,
              data : BackendData]
        \cup [kind : {"request", "setup"}, status : {0}, data : {NullData}]

NoSettlement == [kind |-> "none", status |-> 0, data |-> NullData]

\* res.status(status).json({ success, error, message, mermaid_code })
json(status, success, err, message, code) ==
    [status |-> status, success |-> success, error |-> err,
     message |-> message, mermaid_code |-> code]

\* The last branch of the catch block, lines 76-82.
internalError ==
    json(500, FALSE, "internal_error", "Internal server error", Undef)

\* The catch block, lines 55-84, for a rejected axios.post.
catch(settled) ==
    IF settled.kind = "response"
    THEN json(IF settled.status # 0 THEN settled.status ELSE 500, FALSE,
              "backend_error",
              orElse(settled.data.message,
                     orElse(settled.data.detail, "Backend error")),
              Undef)
    ELSE IF settled.kind = "request"
    THEN json(503, FALSE, "service_unavailable",
              "Could not connect to diagram generation service", Undef)
    ELSE internalError

\* Lines 41-54 with a reply whose failure flag is not looked at.
respondIgnoringSuccess(data) ==
    IF data.kind = "null" THEN internalError
    ELSE json(200, TRUE, Undef,
              orElse(data.message, "Diagram generated successfully"),
              IF truthy(data.mermaid_code) THEN data.mermaid_code
              ELSE IF data.kind = "string" THEN data.text
              ELSE "[object]")

\* Lines 41-54: the response to a reply of the backend.  Reading a property
\* of null throws a TypeError, which the catch block answers.
respond(data) ==
    IF data.kind = "null" THEN internalError
    ELSE IF data.success = "false"
    THEN json(400, FALSE, orElse(data.error, "backend_error"),
              orElse(data.message, "Error generating diagram"), Undef)
    ELSE json(200, TRUE, Undef,
              orElse(data.message, "Diagram generated successfully"),
              IF truthy(data.mermaid_code) THEN data.mermaid_code
              ELSE IF data.kind = "string" THEN data.text
              ELSE "[object]")

\* The route is not serving a request.
HandlerIdle ==
    /\ req = NoRequest
    /\ res = <<>>
    /\ hpc = "idle"
    /\ backend = NoSettlement

\* Lines 6-38: the method, the body and the prompt are checked; a request
\* that passes is forwarded and the handler waits.  Destructuring a body
\* that is absent throws, and the catch block answers.
HandlerEntry ==
    /\ hpc = "start"
    /\ IF req.method # "POST"
       THEN /\ res' = Append(res, json(405, FALSE, "method_not_allowed",
                                       "Method not allowed", Undef))
            /\ hpc' = "done"
       ELSE IF ~req.body.present
       THEN /\ res' = Append(res, internalError)
            /\ hpc' = "done"
       ELSE IF ~truthy(req.body.prompt)
       THEN /\ res' = Append(res, json(400, FALSE, "missing_prompt",
                                       "Prompt is required", Undef))
            /\ hpc' = "done"
       ELSE /\ res' = res
            /\ hpc' = "awaiting"
    /\ UNCHANGED <<req, backend, pageVars>>

\* Lines 31-84 after `await axios.post`: the call settles and the handler
\* answers.
HandlerResume ==
    /\ hpc = "awaiting"
    /\ \E settled \in Settlements :
           /\ backend' = settled
           /\ res' = Append(res, IF settled.kind = "resolved"
                                 THEN respond(settled.data)
                                 ELSE catch(settled))
    /\ hpc' = "done"
    /\ UNCHANGED <<req, pageVars>>

(***************************************************************************)
(* The session: nothing is persisted, every session starts empty.          *)
(***************************************************************************)
\* The page after construction, lines 8-15.
PageInit ==
    /\ diagram = <<>>
    /\ rawDiagram = <<>>
    /\ isLoading = FALSE
    /\ error = NoError
    /\ orientation = TD
    /\ container = EmptyContainer
    /\ renders = {}
    /\ request = FALSE
    /\ event = "init"
    /\ attempt = NoAttempt
    /\ changes = 0

Init ==
    /\ PageInit
    /\ HandlerIdle

Next ==
    \/ SetOrientation
    \/ GenerateDiagram
    \/ GenerateResponse
    \/ GenerateFailure
    \/ RetryRender
    \/ UseTemplate
    \/ RenderResolved
    \/ RenderRejected

Spec == Init /\ [][Next]_vars

\* The session under the assumption that a request in flight settles: the
\* promise of axios.post resolves or rejects, and the continuation of
\* generateDiagram then runs.
LiveSpec ==
    Init /\ [][Next]_vars /\ WF_vars(GenerateResponse \/ GenerateFailure)

(***************************************************************************)
(* The repair pipeline on its own.  A session in which the generator       *)
(* returned the source `header \o body`, the effect stored it and the      *)
(* renderer rejected it at once: retryRender is enabled and takes its      *)
(* repair branch unless the source holds one of the classified phrases.    *)
(***************************************************************************)
\* Ways a generated source begins: no declaration, the declaration with an
\* orientation, with two spaces, in lower case, with the other keyword.
Headers ==
    {<<>>,
     <<"g", "r", "a", "p", "h", " ", "L", "R">>,
     <<"g", "r", "a", "p", "h", " ", " ", "L", "R">>,
     <<"g", "r", "a", "p", "h", " ", "l", "r">>,
     <<"f", "l", "o", "w", "c", "h", "a", "r", "t", " ", "L", "R">>}

\* The pieces a body is made of: a node with a quoted label, a connector,
\* a space, a line break, a terminator, a label delimiter.
Tokens ==
    {<<"A", "[", "\"", "x", "\"", "]">>, Arrow, <<" ">>, <<"\n">>, <<";">>,
     <<"|">>}

\* The texts made of n tokens.
RECURSIVE Bodies(_)
Bodies(n) ==
    IF n = 0 THEN {<<>>}
    ELSE {b \o t : b \in Bodies(n - 1), t \in Tokens}

\* The missing connector of the specification's first scenario.
scenarioNoConnector ==
    <<"S", "t", "a", "r", "t", "[", "A", "]", " ", "V", "a", "l", "i",
      "d", "a", "t", "e", "[", "B", "]">>

\* A connector with two spaces on each side, on a terminated line.
scenarioWideConnector ==
    <<"A", "[", "\"", "x", "\"", "]", " ", " ", "-", "-", ">", " ", " ",
      "B", "[", "\"", "y", "\"", "]", ";">>

\* A labeled edge whose closing delimiter is followed by two spaces.
scenarioWideLabel ==
    <<"A", "[", "\"", "x", "\"", "]", " ", "-", "-", ">", "|", "o", "k",
      "|", " ", " ", "B", "[", "\"", "y", "\"", "]">>

\* A node whose label holds a classified phrase in lower case.
scenarioLowerCase ==
    <<"P", "[", "\"", "p", "a", "y", "m", "e", "n", "t", "\"", "]">>

\* The same node with the phrase as the code spells it.
scenarioUpperCase ==
    <<"P", "[", "\"", "P", "a", "y", "m", "e", "n", "t", "\"", "]">>

\* A source that declares the default orientation.
scenarioDeclaredTD ==
    <<"g", "r", "a", "p", "h", " ", "T", "D", ";", "\n", "A", "[", "\"",
      "x", "\"", "]">>

\* The sources the specification and its scenarios name.
Scenarios ==
    {scenarioNoConnector,
     scenarioWideConnector,
     scenarioWideLabel,
     scenarioLowerCase,
     scenarioUpperCase,
     scenarioDeclaredTD}

RepairInputs ==
    ({h \o b : h \in Headers, b \in UNION {Bodies(n) : n \in 0..MaxTokens}}
        \ {<<>>}) \cup Scenarios

RepairInit ==
    /\ rawDiagram \in RepairInputs
    /\ diagram = rawDiagram
    /\ orientation \in Orientations
    /\ changes = (IF orientation = TD THEN 0 ELSE 1)
    /\ isLoading = FALSE
    /\ request = FALSE
    /\ error = ErrSyntax
    /\ container = [owner |-> 0, show |-> "raw", code |-> rawDiagram]
    /\ renders = {}
    /\ event = "response"
    /\ attempt = "generated"
    /\ HandlerIdle

RepairNext ==
    \/ RetryRender
    \/ RenderResolved
    \/ RenderRejected

RepairSpec == RepairInit /\ [][RepairNext]_vars

(***************************************************************************)
(* The template lookup on its own.  useTemplate takes a string; the three  *)
(* buttons pass "checkout", "buyorder" and "registration".  Here it is     *)
(* called, while an error is stored, with those and with other values.     *)
(***************************************************************************)
\* Values no button passes: the empty string and a category without a
\* template.
OtherTypes == {"", "unclassified"}

UseTemplateCall ==
    /\ error # NoError
    /\ \E type \in TemplateTypes \cup OtherTypes : useTemplate(type)

LookupNext ==
    \/ GenerateDiagram
    \/ GenerateResponse
    \/ GenerateFailure
    \/ UseTemplateCall
    \/ RenderResolved
    \/ RenderRejected

LookupSpec == Init /\ [][LookupNext]_vars

(***************************************************************************)
(* The API route on its own: one request, of any method and body, is       *)
(* handed to the handler; the backend settles the forwarded call in any    *)
(* of the ways axios knows.                                                *)
(***************************************************************************)
HandlerInit ==
    /\ PageInit
    /\ req \in Requests
    /\ res = <<>>
    /\ hpc = "start"
    /\ backend = NoSettlement

HandlerNext ==
    \/ HandlerEntry
    \/ HandlerResume

HandlerSpec == HandlerInit /\ [][HandlerNext]_vars

(***************************************************************************)
(* Notions of the specification used by the properties below.              *)
(***************************************************************************)
\* The positions of t at which a graph header stands: a line that begins
\* with the declaration keyword followed by white space.
GraphHeaders(t) ==
    {p \in 1..Len(t) :
        /\ (p = 1 \/ t[p - 1] = "\n")
        /\ MatchLit(t, p, <<"g", "r", "a", "p", "h">>)
        /\ p + 5 <= Len(t)
        /\ t[p + 5] \in Whitespace}

\* The header at p declares orientation o: the keyword, white space, the
\* token o, and no further letter.
DeclaresOrientation(t, p, o) ==
    LET w == RunEnd(t, p + 5, Whitespace)
    IN  /\ MatchLit(t, w + 1, o)
        /\ (w + Len(o) + 1 > Len(t) \/ t[w + Len(o) + 1] \notin WordChar)

\* The positions at which a line of t begins.
LineStarts(t) == {p \in 1..Len(t) : p = 1 \/ t[p - 1] = "\n"}

\* The last position of the line that begins at p (p - 1 when it is empty).
LineEnd(t, p) == FirstIndex(t, p, Len(t), {"\n"}, TRUE) - 1

\* A node declaration at i: an identifier, "[", a label on the same line
\* and "]", the label quoted or not.  Its last index, or 0.
DeclarationEnd(t, i) ==
    LET w == RunEnd(t, i, WordChar)
        c == FirstIndex(t, w + 2, Len(t), {"]", "\n"}, TRUE)
    IN  IF /\ w >= i
           /\ (i = 1 \/ t[i - 1] \notin WordChar)
           /\ MatchLit(t, w + 1, <<"[">>)
           /\ c <= Len(t)
           /\ t[c] = "]"
        THEN c ELSE 0

\* The line at p is a statement: not a header line, and it holds a node
\* declaration or a connector.
StatementLine(t, p) ==
    /\ p \notin GraphHeaders(t)
    /\ \E i \in p..LineEnd(t, p) :
           MatchLit(t, i, Arrow) \/ DeclarationEnd(t, i) # 0

\* The line at p ends, before any trailing white space, with one ";" and
\* not with two.
OneTerminator(t, p) ==
    LET e == LastIndex(t, p, LineEnd(t, p), Whitespace, FALSE)
    IN  /\ e >= p
        /\ t[e] = ";"
        /\ (e = p \/ t[e - 1] # ";")

\* The positions of t at which a node declaration is followed, on the same
\* line and after white space only, by another node declaration.
AdjacentDeclarations(t) ==
    {i \in 1..Len(t) :
        LET a == DeclarationEnd(t, i)
            w == RunEnd(t, a + 1, Whitespace \ {"\n"})
        IN  /\ a # 0
            /\ w > a
            /\ DeclarationEnd(t, w + 1) # 0}

\* Exactly one space stands before position p of t; a token that begins
\* its line has nothing to be spaced from.
OneSpaceBefore(t, p) ==
    \/ p = 1
    \/ t[p - 1] = "\n"
    \/ /\ t[p - 1] = " "
       /\ (p = 2 \/ t[p - 2] # " ")

\* Exactly one space stands at position q of t, where the text after a
\* token begins; a token that ends its line or its statement has nothing
\* to be spaced from.
OneSpaceAfter(t, q) ==
    \/ q > Len(t)
    \/ t[q] \in {"\n", ";"}
    \/ /\ t[q] = " "
       /\ (q + 1 > Len(t) \/ t[q + 1] # " ")

\* The positions of the connectors of t.
Connectors(t) == {p \in 1..Len(t) : MatchLit(t, p, Arrow)}

\* The closing delimiter of the label that the connector at p opens: the
\* next "|" of its line after the opening one, or 0.
LabelClose(t, p) ==
    LET c == FirstIndex(t, p + 4, Len(t), {"|", "\n"}, TRUE)
    IN  IF MatchLit(t, p + 3, <<"|">>) /\ c <= Len(t) /\ t[c] = "|"
        THEN c ELSE 0

\* The controller of the specification, pure in the current source and the
\* orientation: the branch a retry takes and the source it renders.
sourceToRender(raw, o) ==
    IF isBuyOrderDiagram(raw)
    THEN [via |-> "template", code |-> buyOrderTemplate[o]]
    ELSE IF isCheckoutDiagram(raw)
    THEN [via |-> "template", code |-> checkoutTemplate[o]]
    ELSE [via |-> "repair", code |-> fixedDiagram(raw, o)]

\* The letters in alphabetical order, capital and small.
Capitals ==
    <<"A", "B", "C", "D", "E", "F", "G", "H", "I", "J", "K", "L", "M",
      "N", "O", "P", "Q", "R", "S", "T", "U", "V", "W", "X", "Y", "Z">>

Smalls ==
    <<"a", "b", "c", "d", "e", "f", "g", "h", "i", "j", "k", "l", "m",
      "n", "o", "p", "q", "r", "s", "t", "u", "v", "w", "x", "y", "z">>

\* t with every capital letter replaced by its small letter.
lowerCased(t) ==
    [k \in 1..Len(t) |->
        IF t[k] \in UpperCase
        THEN Smalls[CHOOSE i \in 1..Len(Capitals) : Capitals[i] = t[k]]
        ELSE t[k]]

\* t holds the phrase, whatever the case of its letters.
holdsPhrase(t, phrase) == includes(lowerCased(t), lowerCased(phrase))

\* The classification of the specification, by case-insensitive search:
\* the source belongs to one of the categories that have a template.
classifiedIgnoringCase(t) ==
    \/ holdsPhrase(t, ShoppingCart)
    \/ holdsPhrase(t, Checkout)
    \/ holdsPhrase(t, Payment)
    \/ holdsPhrase(t, Order)
    \/ holdsPhrase(t, BuyOrder)
    \/ (holdsPhrase(t, Trade) /\ holdsPhrase(t, Kafka))
    \/ (holdsPhrase(t, Client) /\ holdsPhrase(t, Service))

\* The vocabularies of the OrderProcessing category: the trade and
\* brokerage phrases, and the event-bus phrase.
tradeVocabulary(t) == includes(t, BuyOrder) \/ includes(t, Trade)

eventBusVocabulary(t) == includes(t, Kafka)

\* The last position of the header that begins t and declares o: the
\* keyword, the white space and the orientation token.
HeaderEnd(t, o) == RunEnd(t, 6, Whitespace) + Len(o)

\* The positions of t at which a node declaration with a quoted label
\* begins.
QuotedNodes(t) ==
    {i \in 1..Len(t) :
        NodeEnd(t, i) # 0 /\ (i = 1 \/ t[i - 1] \notin WordChar)}

\* t holds exactly two node declarations with quoted labels, each alone
\* on its line but for white space, and nothing but white space, a line
\* break included, stands between them.
TwoNodesOnConsecutiveLines(t) ==
    /\ Cardinality(QuotedNodes(t)) = 2
    /\ \E i, j \in QuotedNodes(t) :
           /\ NodeEnd(t, i) < j
           /\ \A k \in (NodeEnd(t, i) + 1)..(j - 1) : t[k] \in Whitespace
           /\ \E k \in (NodeEnd(t, i) + 1)..(j - 1) : t[k] = "\n"
           /\ \A k \in (LastIndex(t, 1, i - 1, {"\n"}, TRUE) + 1)..(i - 1) :
                  t[k] \in Whitespace
           /\ \A k \in (NodeEnd(t, j) + 1)..LineEnd(t, j) :
                  t[k] \in Whitespace

\* The edge statement made of the two node declarations of t.
MergedEdge(t) ==
    LET i == CHOOSE i \in QuotedNodes(t) : \A j \in QuotedNodes(t) : i <= j
        j == CHOOSE j \in QuotedNodes(t) : \A i2 \in QuotedNodes(t) : i2 <= j
    IN  SubSeq(t, i, NodeEnd(t, i)) \o <<" ">> \o Arrow \o <<" ">>
            \o SubSeq(t, j, NodeEnd(t, j))

(***************************************************************************)
(* Properties of the repair pipeline (RepairSpec).                         *)
(***************************************************************************)
\* C1: repair is idempotent: running the pipeline on the text a retry
\* produced gives that text again, repair(repair(s, o), o) = repair(s, o).
C1_RepairIdempotent ==
    (event = "retryRender" /\ attempt = "repair")
        => fixedDiagram(container.code, orientation) = container.code

\* C2: the text a retry produced holds exactly one graph header, and that
\* header declares the selected orientation.
C2_OneHeaderOfOrientation ==
    (event = "retryRender" /\ attempt = "repair") =>
        /\ Cardinality(GraphHeaders(container.code)) = 1
        /\ \A p \in GraphHeaders(container.code) :
               DeclaresOrientation(container.code, p, orientation)

\* C11: in the text a retry produced, every line that holds a node
\* declaration or a connector ends with exactly one terminator ";".
C11_OneTerminatorPerLine ==
    (event = "retryRender" /\ attempt = "repair") =>
        \A p \in LineStarts(container.code) :
            StatementLine(container.code, p)
                => OneTerminator(container.code, p)

\* C12: the text a retry produced holds no two node declarations that
\* stand next to each other without a connector between them.
C12_ConnectorInserted ==
    (event = "retryRender" /\ attempt = "repair")
        => AdjacentDeclarations(container.code) = {}

\* C13: in the text a retry produced, every connector has exactly one
\* space before it and, unless a label follows it at once, exactly one
\* space after it, and every closing delimiter of an edge label has exactly
\* one space after it.
C13_ConnectorSpacing ==
    (event = "retryRender" /\ attempt = "repair") =>
        \A p \in Connectors(container.code) :
            /\ OneSpaceBefore(container.code, p)
            /\ MatchLit(container.code, p + 3, <<"|">>)
                   \/ OneSpaceAfter(container.code, p + 3)
            /\ LabelClose(container.code, p) # 0
                   => OneSpaceAfter(container.code,
                                    LabelClose(container.code, p) + 1)

\* C18: the branch of a retry does not depend on the letter case of the
\* classified phrases: a source that holds one of them in any case is
\* answered with a template, like the source that spells it as the code
\* does, and a source that holds none is repaired.
C18_ClassificationIgnoresCase ==
    (event = "retryRender" /\ attempt # NoAttempt)
        => (attempt = "template" <=> classifiedIgnoringCase(rawDiagram))

\* C20: when the stored source begins with a graph header that declares
\* the selected orientation, the text a retry produced begins with the
\* same header, character for character, and holds as many headers as the
\* source did.
C20_DeclaredHeaderKept ==
    (/\ event = "retryRender"
     /\ attempt = "repair"
     /\ 1 \in GraphHeaders(rawDiagram)
     /\ DeclaresOrientation(rawDiagram, 1, orientation))
    => /\ SubSeq(container.code, 1, HeaderEnd(rawDiagram, orientation))
              = SubSeq(rawDiagram, 1, HeaderEnd(rawDiagram, orientation))
       /\ Len(container.code) >= HeaderEnd(rawDiagram, orientation)
       /\ Cardinality(GraphHeaders(container.code))
              = Cardinality(GraphHeaders(rawDiagram))

\* C20 happens: with LR selected, a retry repaired a source that begins
\* with 'graph LR;' and goes on with a node on the next line.
C20_Witness ==
    /\ event = "retryRender"
    /\ attempt = "repair"
    /\ orientation = LR
    /\ startsWith(rawDiagram, GraphKw \o LR \o <<";", "\n", "A">>)
    /\ startsWith(container.code, GraphKw \o LR \o <<";", "\n", "A">>)

C3_StaleCompletionIgnored ==
    [][\A r \in renders :
          (r.superseded /\ r \notin renders')
              => (container' = container /\ error' = error)]_vars

\* C4: a render the renderer rejected leaves a non-empty error stored, and
\* a render it accepted leaves the error empty.
C4_VerdictStored ==
    /\ Verdict = "rejected" => error # NoError
    /\ Verdict = "accepted" => error = NoError

\* C5: a repaired or template source is sent to the renderer only by a
\* retryRender or useTemplate step, a step starts at most one render, the
\* settling of a render starts none, and after a render started by
\* retryRender or useTemplate was rejected the error is stored (the
\* controller is in Failed).
C5_NoAutomaticRetry ==
    [][/\ attempt' \in {"repair", "template"}
           => event' \in {"retryRender", "useTemplate"}
       /\ Cardinality(renders' \ renders) <= 1
       /\ event' \in {"resolved", "rejected"}
           => (attempt' = NoAttempt /\ renders' \subseteq renders)
       /\ (attempt' \in {"repair", "template"} /\ container'.show = "raw")
           => error' # NoError]_vars

\* C6: no call into the renderer starts while an earlier call has not
\* completed.
C6_OneOutstandingRender ==
    [][attempt' # NoAttempt => renders = {}]_vars

\* C7: every response of the generator makes the returned source the
\* stored source and starts a render of it.
C7_ResponseRestartsRendering ==
    event = "response" =>
        /\ rawDiagram = diagram
        /\ attempt = "generated"
        /\ container.code = diagram

\* C8: while the stored error is the one of a failed generation or of an
\* empty prompt, no repaired and no template source is sent to the
\* renderer.
C8_FallbackOnlyAfterRejection ==
    [][(error \in {ErrGenerate, ErrNoPrompt})
           => attempt' \notin {"repair", "template"}]_vars

\* C9: a retry made while a render failure is stored, on a stored source
\* that holds "Shopping Cart", "Checkout", "Payment" or "Order" and is not
\* a buy-order source, sends the checkout template of the selected
\* orientation and not a repaired source.
C9_CheckoutTemplateOnRetry ==
    [][(/\ event' = "retryRender"
        /\ error = ErrSyntax
        /\ \/ includes(rawDiagram, ShoppingCart)
           \/ includes(rawDiagram, Checkout)
           \/ includes(rawDiagram, Payment)
           \/ includes(rawDiagram, Order)
        /\ ~isBuyOrderDiagram(rawDiagram))
       => (/\ attempt' = "template"
           /\ container'.code = checkoutTemplate[orientation])]_vars

\* C9 happens: the retry of the generated checkout flow sent the checkout
\* template, which the renderer rejected again.
C9_Witness ==
    /\ event = "retryRender"
    /\ attempt = "template"
    /\ rawDiagram = srcCheckout
    /\ error = ErrSyntax
    /\ container = [owner |-> 0, show |-> "raw",
                    code |-> checkoutTemplate[orientation]]

\* C10: while a render failure is stored for a source that holds none of
\* the classified phrases, no template source is sent to the renderer.
C10_NoTemplateForUnclassified ==
    [][(/\ error = ErrSyntax
        /\ ~isCheckoutDiagram(rawDiagram)
        /\ ~isBuyOrderDiagram(rawDiagram))
       => attempt' # "template"]_vars

\* C14: a retry that sends a source to the renderer makes that source, the
\* repaired text or the chosen template, the stored source.
C14_RetryReplacesSource ==
    [][(event' = "retryRender" /\ attempt' \in {"repair", "template"})
           => rawDiagram' = container'.code]_vars

\* C15: the branch a retry takes and the source it sends to the renderer
\* are a function of the stored source and the selected orientation alone,
\* whatever error message is stored and whatever was attempted before (a
\* retry changes neither the stored source nor the orientation, so the
\* state it leaves holds both arguments).
C15_RetryDeterministic ==
    (event = "retryRender" /\ attempt # NoAttempt)
        => \E c \in {sourceToRender(rawDiagram, orientation)} :
               /\ attempt = c.via
               /\ container.code = c.code

\* C15 happens: a retry made while the error of a failed generation was
\* stored sent the checkout template, as it does after a render failure.
C15_Witness ==
    /\ event = "retryRender"
    /\ attempt = "template"
    /\ error = ErrGenerate
    /\ rawDiagram = srcCheckout
    /\ container.code = checkoutTemplate[orientation]

\* C17: every template source sent to the renderer, by retryRender or by
\* useTemplate, begins with a graph header that declares the orientation
\* selected when the action ran.
C17_TemplateDeclaresOrientation ==
    [][attempt' = "template"
           => /\ 1 \in GraphHeaders(container'.code)
              /\ DeclaresOrientation(container'.code, 1, orientation)]_vars

\* C17 happens: with LR selected, useTemplate sent the registration
\* template that declares LR.
C17_Witness ==
    /\ event = "useTemplate"
    /\ attempt = "template"
    /\ orientation = LR
    /\ container.code = registrationTemplateCode[LR]

\* C19: a retry sends the buy-order template only for a stored source
\* that holds trade or brokerage vocabulary together with event-bus
\* vocabulary.
C19_OrderProcessingNeedsBoth ==
    [][(/\ event' = "retryRender"
        /\ attempt' = "template"
        /\ container'.code = buyOrderTemplate[orientation])
       => (tradeVocabulary(rawDiagram) /\ eventBusVocabulary(rawDiagram))]_vars

\* C23: retryRender and useTemplate run only while an error is stored, and
\* a render the renderer accepted leaves the error empty, so that neither
\* runs again before a later failure stores an error.
C23_FallbackOnlyWhileFailed ==
    [][/\ event' \in {"retryRender", "useTemplate"} => error # NoError
       /\ Verdict' = "accepted" => error' = NoError
       /\ Verdict = "accepted"
              => event' \notin {"retryRender", "useTemplate"}]_vars

\* C23 happens: the render a retry started was accepted, and the error
\* that enabled the retry is gone.
C23_Witness ==
    /\ event = "retryRender"
    /\ Verdict = "accepted"
    /\ attempt = "repair"
    /\ error = NoError

\* C24: a retry that follows a retry at once sends the renderer the source
\* the first one sent: the repair works on the stored source and not on
\* its own earlier output.
C24_RepeatedRetrySameSource ==
    [][(/\ event = "retryRender" /\ attempt # NoAttempt
        /\ event' = "retryRender" /\ attempt' # NoAttempt)
       => (attempt' = attempt /\ container'.code = container.code)]_vars

\* C24 happens: a retry repaired the stored source while the render an
\* earlier retry started for the same repaired text had not settled.
C24_Witness ==
    /\ event = "retryRender"
    /\ attempt = "repair"
    /\ rawDiagram = srcPlain
    /\ container.owner = 0
    /\ \E r \in renders : r.code = container.code

\* C25: a retry on a stored source that passes both the buy-order test and
\* the checkout test sends the buy-order template of the selected
\* orientation, not the checkout template and not a repaired source.
C25_BuyOrderFirst ==
    (/\ event = "retryRender"
     /\ attempt # NoAttempt
     /\ isBuyOrderDiagram(rawDiagram)
     /\ isCheckoutDiagram(rawDiagram))
    => /\ attempt = "template"
       /\ container.code = buyOrderTemplate[orientation]
       /\ container.code # checkoutTemplate[orientation]

\* C25 happens: the generated source with the node "Buy Order", which
\* holds "Order" too, was retried with LR selected and the buy-order
\* template was sent.
C25_Witness ==
    /\ event = "retryRender"
    /\ attempt = "template"
    /\ rawDiagram = srcBuyOrder
    /\ orientation = LR
    /\ container.code = buyOrderTemplate[LR]

\* C26: the template a retry sends is, character for character, the one
\* useTemplate sends for the same category and orientation: the buy-order
\* template for a buy-order source, the checkout template otherwise.
C26_TemplateCallSitesAgree ==
    (event = "retryRender" /\ attempt = "template")
        => container.code =
               (IF isBuyOrderDiagram(rawDiagram) THEN templateCode("buyorder")
                ELSE templateCode("checkout"))

\* C26 happens: the retry of the generated checkout flow sent the text
\* that useTemplate("checkout") sends.
C26_Witness ==
    /\ event = "retryRender"
    /\ attempt = "template"
    /\ rawDiagram = srcCheckout
    /\ container.code = templateCode("checkout")

\* C27: a generateDiagram that does not start loading (the prompt is
\* blank) sends no request, and one whose request fails starts no render;
\* both leave diagram, rawDiagram and the container as they were, store a
\* non-empty error and end with isLoading false.
C27_NoDiagramNoChange ==
    [][((event' = "generateDiagram" /\ ~isLoading') \/ event' = "failure")
       => /\ diagram' = diagram
          /\ rawDiagram' = rawDiagram
          /\ container' = container
          /\ renders' = renders
          /\ attempt' = NoAttempt
          /\ ~request'
          /\ error' # NoError
          /\ ~isLoading']_vars

\* C27 happens: a second request failed and the diagram generated by the
\* first is still stored.
C27_Witness ==
    /\ event = "failure"
    /\ diagram = srcPlain
    /\ rawDiagram = srcPlain
    /\ error = ErrGenerate
    /\ ~isLoading

\* C28: isLoading is true exactly while the request of generateDiagram is
\* in flight, and while it is in flight generateDiagram does not run, so
\* no second request is sent before the first has settled.
C28_OneRequestInFlight ==
    /\ [](isLoading = request)
    /\ [][request => event' # "generateDiagram"]_vars

\* C28 happens: with a diagram on the page, a further request is in
\* flight and the page is loading.
C28_Witness ==
    /\ event = "generateDiagram"
    /\ request
    /\ isLoading
    /\ diagram # <<>>

(***************************************************************************)
(* Properties of the template lookup (LookupSpec).                         *)
(***************************************************************************)
\* C16: useTemplate called with a value other than "checkout", "buyorder"
\* and "registration" starts no render and leaves the stored source, the
\* stored error and what the container shows as they were.
C16_NoTemplateNoEffect ==
    [][\A type \in OtherTypes :
          useTemplate(type)
              => /\ attempt' = NoAttempt
                 /\ renders' = renders
                 /\ rawDiagram' = rawDiagram
                 /\ error' = error
                 /\ container' = container]_vars

\* C16 happens: useTemplate ran in a session whose container is mounted and
\* left the error stored, which a call with one of the three values clears.
C16_Witness ==
    /\ event = "useTemplate"
    /\ attempt = NoAttempt
    /\ diagram # <<>>
    /\ error # NoError

(***************************************************************************)
(* Properties of the API route (HandlerSpec).                              *)
(***************************************************************************)
\* C22: the handler sends one response per request, never two; the
\* response is 200 with success true and a mermaid_code only when the
\* method is POST, the prompt is not empty and the backend replied without
\* success === false; every other response has success false and no
\* mermaid_code.
C22_OneResponsePerRequest ==
    /\ Len(res) = (IF hpc = "done" THEN 1 ELSE 0)
    /\ \A k \in 1..Len(res) :
           IF res[k].status = 200
           THEN /\ res[k].success
                /\ res[k].mermaid_code # Undef
                /\ req.method = "POST"
                /\ truthy(req.body.prompt)
                /\ backend.kind = "resolved"
                /\ backend.data.success # "false"
           ELSE /\ ~res[k].success
                /\ res[k].mermaid_code = Undef

\* C22 happens: a POST with a prompt was forwarded, the backend replied
\* with a mermaid_code and no failure flag, and the handler answered 200.
C22_Witness ==
    /\ hpc = "done"
    /\ req.method = "POST"
    /\ req.body.prompt = "p"
    /\ backend.kind = "resolved"
    /\ backend.data.mermaid_code = "code"
    /\ res = <<json(200, TRUE, Undef, "Diagram generated successfully",
                    "code")>>

(***************************************************************************)
(* Progress of the page when requests settle (LiveSpec).                   *)
(***************************************************************************)
\* C29: whenever the page is loading, it is eventually not loading: every
\* request that generateDiagram sent and that settles, by a response or by
\* a failure, resets isLoading.
C29_LoadingEnds == isLoading ~> ~isLoading

\* C29 happens: a request was sent, the response arrived and the page is
\* no longer loading.
C29_Witness ==
    /\ event = "response"
    /\ diagram = srcCheckout
    /\ ~request
    /\ ~isLoading

====
